---- MODULE Spec2Model ----
(***************************************************************************)
(* auto-SRE: command resolution (nlp_processor.py, deepseek_ai.py,         *)
(* ai_providers.py), session memory (memory_manager.py), the SSH transport *)
(* (ssh_manager.py) and the Tk front end that sequences them (gui.py).     *)
(*                                                                         *)
(* Text is modelled as a sequence of characters.  An ASCII character is    *)
(* the one-character string itself; a CJK character is the string "uXXXX"  *)
(* of its code point (for instance "u91cd" "u542f" is chong-qi, reboot).   *)
(***************************************************************************)
EXTENDS Integers, Sequences, FiniteSets, TLC

VARIABLES
  \* ---- NLPProcessor exercised as a pure function
  nlp_input,        \* the text handed to process / _is_dangerous
  nlp_result,       \* what the last call returned
  \* ---- MemoryManager (memory_manager.py:19-31)
  current_ip,       \* self.current_ip
  current_memory,   \* self.current_memory
  session_history,  \* self.session_history
  files,            \* the memory directory: file name -> content
  clock,            \* datetime.now(), one tick per reading
  mem_log,          \* history: records handed to add_operation since the last load/clear
  mem_last,         \* history: the last MemoryManager call and its outcome
  \* ---- AIProviderManager (ai_providers.py:247-252)
  providers,        \* self.providers: name -> provider fields
  current_provider, \* self.current_provider
  endpoint_calls,   \* number of chat.completions.create calls made
  ai_last,          \* history: the last registry call and its result
  \* ---- SSHManager, DeepSeekAI and AutoOpsGUI (gui.py:97-121)
  ssh,              \* SSHManager fields
  deepseek,         \* DeepSeekAI fields
  ai_mode_enabled,  \* self.ai_mode_enabled
  buttons,          \* state of exec_btn, connect_btn, disconnect_btn
  threads,          \* worker threads that have not finished
  after_queue,      \* callbacks scheduled with root.after(0, ...)
  dialogs,          \* open askyesno dialogs, innermost last
  turns,            \* history: one entry per submitted utterance
  exec_calls        \* history: every call of ssh_manager.execute_command

nlp_vars == <<nlp_input, nlp_result>>
mem_vars == <<current_ip, current_memory, session_history, files, clock, mem_log, mem_last>>
ai_vars  == <<providers, current_provider, endpoint_calls, ai_last>>
gui_vars == <<ssh, deepseek, ai_mode_enabled, buttons, threads, after_queue, dialogs,
              turns, exec_calls>>
vars == <<nlp_vars, mem_vars, ai_vars, gui_vars>>

-----------------------------------------------------------------------------
(* Text helpers: the str methods the code uses.                            *)

UpperCase == <<"A","B","C","D","E","F","G","H","I","J","K","L","M",
               "N","O","P","Q","R","S","T","U","V","W","X","Y","Z">>
LowerCase == <<"a","b","c","d","e","f","g","h","i","j","k","l","m",
               "n","o","p","q","r","s","t","u","v","w","x","y","z">>

\* str.lower() on one character
LowerChar(c) ==
  IF \E i \in 1..Len(UpperCase) : UpperCase[i] = c
  THEN LowerCase[CHOOSE i \in 1..Len(UpperCase) : UpperCase[i] = c]
  ELSE c

\* str.lower()
Lower(s) == [i \in 1..Len(s) |-> LowerChar(s[i])]

\* characters str.strip() and str.split() treat as white space
Whitespace == {" ", "\t", "\n", "\r"}

\* str.strip()
Strip(s) ==
  LET keep == {i \in 1..Len(s) : s[i] \notin Whitespace}
  IN  IF keep = {} THEN <<>>
      ELSE LET lo == CHOOSE i \in keep : \A j \in keep : i <= j
               hi == CHOOSE i \in keep : \A j \in keep : j <= i
           IN  SubSeq(s, lo, hi)

\* needle in hay
Contains(hay, needle) ==
  \E i \in 0..(Len(hay) - Len(needle)) : SubSeq(hay, i + 1, i + Len(needle)) = needle

\* hay.startswith(prefix)
StartsWith(hay, prefix) ==
  Len(prefix) <= Len(hay) /\ SubSeq(hay, 1, Len(prefix)) = prefix

\* text.split()[0] if text.split() else ""
FirstWord(text) ==
  LET keep == {i \in 1..Len(text) : text[i] \notin Whitespace}
  IN  IF keep = {} THEN <<>>
      ELSE LET lo == CHOOSE i \in keep : \A j \in keep : i <= j
               stop == {i \in lo..Len(text) : text[i] \in Whitespace}
               hi == IF stop = {} THEN Len(text)
                     ELSE (CHOOSE i \in stop : \A j \in stop : i <= j) - 1
           IN  SubSeq(text, lo, hi)

-----------------------------------------------------------------------------
(* NLPProcessor (nlp_processor.py)                                         *)

command_mappings ==
  <<
    \* rule 1 (nlp_processor.py:19): df -h
    [ keywords |-> << <<"u78c1", "u76d8">>,
                    <<"u786c", "u76d8">>,
                    <<"u5b58", "u50a8", "u7a7a", "u95f4">>,
                    <<"u78c1", "u76d8", "u7a7a", "u95f4">> >>,
      has_command |-> TRUE,
      command |-> <<"d", "f", " ", "-", "h">>,
      description |-> 1 ],
    \* rule 2 (nlp_processor.py:20): free -h
    [ keywords |-> << <<"u5185", "u5b58">>,
                    <<"u5185", "u5b58", "u4f7f", "u7528">>,
                    <<"r", "a", "m">> >>,
      has_command |-> TRUE,
      command |-> <<"f", "r", "e", "e", " ", "-", "h">>,
      description |-> 2 ],
    \* rule 3 (nlp_processor.py:21): top -bn1 | head -20
    [ keywords |-> << <<"c", "p", "u">>,
                    <<"u5904", "u7406", "u5668">>,
                    <<"c", "p", "u", "u4f7f", "u7528">> >>,
      has_command |-> TRUE,
      command |-> <<"t", "o", "p", " ", "-", "b", "n", "1", " ", "|", " ", "h", "e", "a", "d", " ", "-", "2", "0">>,
      description |-> 3 ],
    \* rule 4 (nlp_processor.py:22): uname -a && cat /etc/os-release
    [ keywords |-> << <<"u7cfb", "u7edf", "u4fe1", "u606f">>,
                    <<"u7cfb", "u7edf", "u7248", "u672c">>,
                    <<"u64cd", "u4f5c", "u7cfb", "u7edf">> >>,
      has_command |-> TRUE,
      command |-> <<"u", "n", "a", "m", "e", " ", "-", "a", " ", "&", "&", " ", "c", "a", "t", " ", "/", "e", "t", "c", "/", "o", "s", "-", "r", "e", "l", "e", "a", "s", "e">>,
      description |-> 4 ],
    \* rule 5 (nlp_processor.py:23): uptime
    [ keywords |-> << <<"u8fd0", "u884c", "u65f6", "u95f4">>,
                    <<"u5f00", "u673a", "u65f6", "u95f4">>,
                    <<"u", "p", "t", "i", "m", "e">> >>,
      has_command |-> TRUE,
      command |-> <<"u", "p", "t", "i", "m", "e">>,
      description |-> 5 ],
    \* rule 6 (nlp_processor.py:24): uptime && cat /proc/loadavg
    [ keywords |-> << <<"u8d1f", "u8f7d">>,
                    <<"u7cfb", "u7edf", "u8d1f", "u8f7d">>,
                    <<"l", "o", "a", "d">> >>,
      has_command |-> TRUE,
      command |-> <<"u", "p", "t", "i", "m", "e", " ", "&", "&", " ", "c", "a", "t", " ", "/", "p", "r", "o", "c", "/", "l", "o", "a", "d", "a", "v", "g">>,
      description |-> 6 ],
    \* rule 7 (nlp_processor.py:27): ps aux --sort=-%mem | head -20
    [ keywords |-> << <<"u8fdb", "u7a0b">>,
                    <<"u8fdb", "u7a0b", "u5217", "u8868">>,
                    <<"u8fd0", "u884c", "u8fdb", "u7a0b">> >>,
      has_command |-> TRUE,
      command |-> <<"p", "s", " ", "a", "u", "x", " ", "-", "-", "s", "o", "r", "t", "=", "-", "%", "m", "e", "m", " ", "|", " ", "h", "e", "a", "d", " ", "-", "2", "0">>,
      description |-> 7 ],
    \* rule 8 (nlp_processor.py:28): systemctl list-units --type=service --state=running
    [ keywords |-> << <<"u670d", "u52a1", "u72b6", "u6001">>,
                    <<"u670d", "u52a1">>,
                    <<"s", "y", "s", "t", "e", "m", "c", "t", "l">> >>,
      has_command |-> TRUE,
      command |-> <<"s", "y", "s", "t", "e", "m", "c", "t", "l", " ", "l", "i", "s", "t", "-", "u", "n", "i", "t", "s", " ", "-", "-", "t", "y", "p", "e", "=", "s", "e", "r", "v", "i", "c", "e", " ", "-", "-", "s", "t", "a", "t", "e", "=", "r", "u", "n", "n", "i", "n", "g">>,
      description |-> 8 ],
    \* rule 9 (nlp_processor.py:29): command None
    [ keywords |-> << <<"u6740", "u8fdb", "u7a0b">>,
                    <<"u7ed3", "u675f", "u8fdb", "u7a0b">> >>,
      has_command |-> FALSE,
      command |-> <<>>,
      description |-> 9 ],
    \* rule 10 (nlp_processor.py:32): netstat -tulpn 2>/dev/null || ss -tulpn
    [ keywords |-> << <<"u7f51", "u7edc", "u8fde", "u63a5">>,
                    <<"u7aef", "u53e3">>,
                    <<"u76d1", "u542c", "u7aef", "u53e3">> >>,
      has_command |-> TRUE,
      command |-> <<"n", "e", "t", "s", "t", "a", "t", " ", "-", "t", "u", "l", "p", "n", " ", "2", ">", "/", "d", "e", "v", "/", "n", "u", "l", "l", " ", "|", "|", " ", "s", "s", " ", "-", "t", "u", "l", "p", "n">>,
      description |-> 10 ],
    \* rule 11 (nlp_processor.py:33): ip addr show
    [ keywords |-> << <<"i", "p", "u5730", "u5740">>,
                    <<"u7f51", "u5361">>,
                    <<"i", "p">> >>,
      has_command |-> TRUE,
      command |-> <<"i", "p", " ", "a", "d", "d", "r", " ", "s", "h", "o", "w">>,
      description |-> 11 ],
    \* rule 12 (nlp_processor.py:34): ip route show
    [ keywords |-> << <<"u8def", "u7531">>,
                    <<"u8def", "u7531", "u8868">> >>,
      has_command |-> TRUE,
      command |-> <<"i", "p", " ", "r", "o", "u", "t", "e", " ", "s", "h", "o", "w">>,
      description |-> 12 ],
    \* rule 13 (nlp_processor.py:35): command None
    [ keywords |-> << <<"u7f51", "u7edc", "u6d4b", "u8bd5">>,
                    <<"p", "i", "n", "g">> >>,
      has_command |-> FALSE,
      command |-> <<>>,
      description |-> 13 ],
    \* rule 14 (nlp_processor.py:38): pwd
    [ keywords |-> << <<"u5f53", "u524d", "u76ee", "u5f55">>,
                    <<"p", "w", "d">> >>,
      has_command |-> TRUE,
      command |-> <<"p", "w", "d">>,
      description |-> 14 ],
    \* rule 15 (nlp_processor.py:39): ls -la
    [ keywords |-> << <<"u5217", "u51fa", "u6587", "u4ef6">>,
                    <<"u6587", "u4ef6", "u5217", "u8868">>,
                    <<"l", "s">>,
                    <<"u76ee", "u5f55", "u5185", "u5bb9">> >>,
      has_command |-> TRUE,
      command |-> <<"l", "s", " ", "-", "l", "a">>,
      description |-> 15 ],
    \* rule 16 (nlp_processor.py:40): command None
    [ keywords |-> << <<"u67e5", "u770b", "u6587", "u4ef6">>,
                    <<"u8bfb", "u53d6", "u6587", "u4ef6">>,
                    <<"c", "a", "t">> >>,
      has_command |-> FALSE,
      command |-> <<>>,
      description |-> 16 ],
    \* rule 17 (nlp_processor.py:41): du -sh *
    [ keywords |-> << <<"u6587", "u4ef6", "u5927", "u5c0f">>,
                    <<"u76ee", "u5f55", "u5927", "u5c0f">> >>,
      has_command |-> TRUE,
      command |-> <<"d", "u", " ", "-", "s", "h", " ", "*">>,
      description |-> 17 ],
    \* rule 18 (nlp_processor.py:44): tail -n 50 /var/log/syslog 2>/dev/null || tail -n 50 /var/log/messages
    [ keywords |-> << <<"u7cfb", "u7edf", "u65e5", "u5fd7">>,
                    <<"u65e5", "u5fd7">>,
                    <<"s", "y", "s", "l", "o", "g">> >>,
      has_command |-> TRUE,
      command |-> <<"t", "a", "i", "l", " ", "-", "n", " ", "5", "0", " ", "/", "v", "a", "r", "/", "l", "o", "g", "/", "s", "y", "s", "l", "o", "g", " ", "2", ">", "/", "d", "e", "v", "/", "n", "u", "l", "l", " ", "|", "|", " ", "t", "a", "i", "l", " ", "-", "n", " ", "5", "0", " ", "/", "v", "a", "r", "/", "l", "o", "g", "/", "m", "e", "s", "s", "a", "g", "e", "s">>,
      description |-> 18 ],
    \* rule 19 (nlp_processor.py:45): last -n 20
    [ keywords |-> << <<"u767b", "u5f55", "u65e5", "u5fd7">>,
                    <<"u767b", "u5f55", "u8bb0", "u5f55">> >>,
      has_command |-> TRUE,
      command |-> <<"l", "a", "s", "t", " ", "-", "n", " ", "2", "0">>,
      description |-> 19 ],
    \* rule 20 (nlp_processor.py:46): lastb -n 20 2>/dev/null || echo '?? root ??'
    [ keywords |-> << <<"u5931", "u8d25", "u767b", "u5f55">>,
                    <<"u767b", "u5f55", "u5931", "u8d25">> >>,
      has_command |-> TRUE,
      command |-> <<"l", "a", "s", "t", "b", " ", "-", "n", " ", "2", "0", " ", "2", ">", "/", "d", "e", "v", "/", "n", "u", "l", "l", " ", "|", "|", " ", "e", "c", "h", "o", " ", "'", "u9700", "u8981", " ", "r", "o", "o", "t", " ", "u6743", "u9650", "'">>,
      description |-> 20 ],
    \* rule 21 (nlp_processor.py:49): whoami
    [ keywords |-> << <<"u5f53", "u524d", "u7528", "u6237">>,
                    <<"w", "h", "o", "a", "m", "i">> >>,
      has_command |-> TRUE,
      command |-> <<"w", "h", "o", "a", "m", "i">>,
      description |-> 21 ],
    \* rule 22 (nlp_processor.py:50): who
    [ keywords |-> << <<"u5728", "u7ebf", "u7528", "u6237">>,
                    <<"u767b", "u5f55", "u7528", "u6237">>,
                    <<"w", "h", "o">> >>,
      has_command |-> TRUE,
      command |-> <<"w", "h", "o">>,
      description |-> 22 ],
    \* rule 23 (nlp_processor.py:51): cat /etc/passwd | cut -d: -f1
    [ keywords |-> << <<"u7528", "u6237", "u5217", "u8868">> >>,
      has_command |-> TRUE,
      command |-> <<"c", "a", "t", " ", "/", "e", "t", "c", "/", "p", "a", "s", "s", "w", "d", " ", "|", " ", "c", "u", "t", " ", "-", "d", ":", " ", "-", "f", "1">>,
      description |-> 23 ],
    \* rule 24 (nlp_processor.py:54): sudo reboot
    [ keywords |-> << <<"u91cd", "u542f">>,
                    <<"u91cd", "u542f", "u670d", "u52a1", "u5668">> >>,
      has_command |-> TRUE,
      command |-> <<"s", "u", "d", "o", " ", "r", "e", "b", "o", "o", "t">>,
      description |-> 24 ],
    \* rule 25 (nlp_processor.py:55): sudo shutdown -h now
    [ keywords |-> << <<"u5173", "u673a">>,
                    <<"u5173", "u95ed", "u670d", "u52a1", "u5668">> >>,
      has_command |-> TRUE,
      command |-> <<"s", "u", "d", "o", " ", "s", "h", "u", "t", "d", "o", "w", "n", " ", "-", "h", " ", "n", "o", "w">>,
      description |-> 25 ],
    \* rule 26 (nlp_processor.py:56): sudo apt update && sudo apt upgrade -y
    [ keywords |-> << <<"u66f4", "u65b0", "u7cfb", "u7edf">>,
                    <<"u7cfb", "u7edf", "u66f4", "u65b0">>,
                    <<"a", "p", "t", " ", "u", "p", "d", "a", "t", "e">> >>,
      has_command |-> TRUE,
      command |-> <<"s", "u", "d", "o", " ", "a", "p", "t", " ", "u", "p", "d", "a", "t", "e", " ", "&", "&", " ", "s", "u", "d", "o", " ", "a", "p", "t", " ", "u", "p", "g", "r", "a", "d", "e", " ", "-", "y">>,
      description |-> 26 ],
    \* rule 27 (nlp_processor.py:59): docker ps -a
    [ keywords |-> << <<"d", "o", "c", "k", "e", "r", "u5bb9", "u5668">>,
                    <<"u5bb9", "u5668", "u5217", "u8868">>,
                    <<"d", "o", "c", "k", "e", "r", " ", "p", "s">> >>,
      has_command |-> TRUE,
      command |-> <<"d", "o", "c", "k", "e", "r", " ", "p", "s", " ", "-", "a">>,
      description |-> 27 ],
    \* rule 28 (nlp_processor.py:60): docker images
    [ keywords |-> << <<"d", "o", "c", "k", "e", "r", "u955c", "u50cf">>,
                    <<"u955c", "u50cf", "u5217", "u8868">> >>,
      has_command |-> TRUE,
      command |-> <<"d", "o", "c", "k", "e", "r", " ", "i", "m", "a", "g", "e", "s">>,
      description |-> 28 ],
    \* rule 29 (nlp_processor.py:63): command None
    [ keywords |-> << <<"u5e2e", "u52a9">>,
                    <<"h", "e", "l", "p">>,
                    <<"u547d", "u4ee4", "u5217", "u8868">>,
                    <<"u652f", "u6301", "u7684", "u547d", "u4ee4">> >>,
      has_command |-> FALSE,
      command |-> <<>>,
      description |-> 29 ]
  >>

dangerous_commands ==
  << <<"r", "e", "b", "o", "o", "t">>,
     <<"s", "h", "u", "t", "d", "o", "w", "n">>,
     <<"r", "m", " ", "-", "r", "f">>,
     <<"m", "k", "f", "s">>,
     <<"d", "d", " ", "i", "f", "=">>,
     <<":", "(", ")", "{", " ", ":", "|", ":", "&", " ", "}", ";", ":">>,
     <<">", " ", "/", "d", "e", "v", "/", "s", "d", "a">>,
     <<"c", "h", "m", "o", "d", " ", "-", "R", " ", "7", "7", "7", " ", "/">> >>

command_starts ==
  { <<"l", "s">>, <<"c", "d">>, <<"p", "w", "d">>, <<"c", "a", "t">>,
    <<"g", "r", "e", "p">>, <<"f", "i", "n", "d">>, <<"p", "s">>, <<"t", "o", "p">>,
    <<"d", "f">>, <<"d", "u">>, <<"f", "r", "e", "e">>, <<"u", "n", "a", "m", "e">>,
    <<"w", "h", "o", "a", "m", "i">>, <<"w", "h", "o">>, <<"i", "d">>, <<"s", "u", "d", "o">>,
    <<"a", "p", "t">>, <<"y", "u", "m">>, <<"d", "n", "f">>, <<"s", "y", "s", "t", "e", "m", "c", "t", "l">>,
    <<"s", "e", "r", "v", "i", "c", "e">>, <<"d", "o", "c", "k", "e", "r">>, <<"k", "u", "b", "e", "c", "t", "l">>, <<"g", "i", "t">>,
    <<"n", "p", "m">>, <<"p", "i", "p">>, <<"p", "y", "t", "h", "o", "n">>, <<"n", "o", "d", "e">>,
    <<"j", "a", "v", "a">>, <<"m", "y", "s", "q", "l">>, <<"m", "o", "n", "g", "o">>, <<"r", "e", "d", "i", "s">>,
    <<"n", "g", "i", "n", "x">>, <<"c", "u", "r", "l">>, <<"w", "g", "e", "t">>, <<"s", "s", "h">>,
    <<"s", "c", "p">>, <<"r", "s", "y", "n", "c">>, <<"t", "a", "r">>, <<"z", "i", "p">>,
    <<"u", "n", "z", "i", "p">>, <<"c", "h", "m", "o", "d">>, <<"c", "h", "o", "w", "n">>, <<"c", "p">>,
    <<"m", "v">>, <<"r", "m">>, <<"m", "k", "d", "i", "r">>, <<"t", "o", "u", "c", "h">>,
    <<"v", "i", "m">>, <<"n", "a", "n", "o">>, <<"h", "e", "a", "d">>, <<"t", "a", "i", "l">>,
    <<"l", "e", "s", "s">>, <<"m", "o", "r", "e">>, <<"e", "c", "h", "o">>, <<"d", "a", "t", "e">>,
    <<"c", "a", "l">>, <<"h", "i", "s", "t", "o", "r", "y">>, <<"n", "e", "t", "s", "t", "a", "t">>, <<"s", "s">>,
    <<"i", "p">>, <<"i", "f", "c", "o", "n", "f", "i", "g">>, <<"p", "i", "n", "g">>, <<"t", "r", "a", "c", "e", "r", "o", "u", "t", "e">>,
    <<"n", "s", "l", "o", "o", "k", "u", "p">>, <<"k", "i", "l", "l">>, <<"k", "i", "l", "l", "a", "l", "l">>, <<"p", "k", "i", "l", "l">>,
    <<"h", "t", "o", "p">>, <<"i", "o", "t", "o", "p">>, <<"i", "f", "t", "o", "p">> }

\* the keyword list of the help short-circuit: bang-zhu, help, ming-ling-lie-biao,
\* zhi-chi-de-ming-ling
help_keywords ==
  << <<"u5e2e", "u52a9">>,
     <<"h", "e", "l", "p">>,
     <<"u547d", "u4ee4", "u5217", "u8868">>,
     <<"u652f", "u6301", "u7684", "u547d", "u4ee4">> >>

\* any(keyword in text for keyword in keywords)
AnyKeywordIn(keywords, text) ==
  \E k \in 1..Len(keywords) : Contains(text, keywords[k])

\* a test that knows the shell verbs but not the path prefixes
_looks_like_command_verbs_only(text) ==
  FirstWord(text) \in command_starts

_looks_like_command(text) ==
  \/ FirstWord(text) \in command_starts
  \/ StartsWith(text, <<".", "/">>)
  \/ StartsWith(text, <<"/">>)

_is_dangerous(command) ==
  LET command_lower == Lower(command)
  IN  \E d \in 1..Len(dangerous_commands) : Contains(command_lower, dangerous_commands[d])

\* a scan that lets the last matching rule overwrite the earlier ones
MatchingRules_last_wins(text) ==
  LET all == {r \in 1..Len(command_mappings) :
                AnyKeywordIn(command_mappings[r].keywords, text)}
  IN  {r \in all : \A q \in all : q <= r}

\* the rules whose keywords match, in declaration order
MatchingRules(text) ==
  {r \in 1..Len(command_mappings) : AnyKeywordIn(command_mappings[r].keywords, text)}

\* a resolver that scans the rules before it looks for a help keyword
process_rules_first(raw_input) ==
  LET user_input == Lower(Strip(raw_input))
  IN  IF MatchingRules(user_input) # {}
      THEN LET r == CHOOSE r \in MatchingRules(user_input) :
                      \A q \in MatchingRules(user_input) : r <= q
               rule == command_mappings[r]
           IN  IF ~rule.has_command
               THEN [command |-> <<>>, description |-> [kind |-> "clarify", rule |-> r],
                     needs_confirm |-> FALSE]
               ELSE [command |-> rule.command, description |-> [kind |-> "rule", rule |-> r],
                     needs_confirm |-> _is_dangerous(rule.command)]
      ELSE IF _looks_like_command(user_input)
      THEN [command |-> user_input, description |-> [kind |-> "literal", rule |-> 0],
            needs_confirm |-> _is_dangerous(user_input)]
      ELSE IF AnyKeywordIn(help_keywords, user_input)
      THEN [command |-> <<>>, description |-> [kind |-> "help", rule |-> 0],
            needs_confirm |-> FALSE]
      ELSE [command |-> <<>>, description |-> [kind |-> "unrecognized", rule |-> 0],
            needs_confirm |-> FALSE]

\* process(user_input) -> (command, description, needs_confirm)
process(raw_input) ==
  LET user_input == Lower(Strip(raw_input))
  IN  IF AnyKeywordIn(help_keywords, user_input)
      THEN [command |-> <<>>, description |-> [kind |-> "help", rule |-> 0],
            needs_confirm |-> FALSE]
      ELSE IF MatchingRules(user_input) # {}
      THEN LET r == CHOOSE r \in MatchingRules(user_input) :
                      \A q \in MatchingRules(user_input) : r <= q
               rule == command_mappings[r]
           IN  IF ~rule.has_command
               THEN [command |-> <<>>, description |-> [kind |-> "clarify", rule |-> r],
                     needs_confirm |-> FALSE]
               ELSE [command |-> rule.command, description |-> [kind |-> "rule", rule |-> r],
                     needs_confirm |-> _is_dangerous(rule.command)]
      ELSE IF _looks_like_command(user_input)
      THEN [command |-> user_input, description |-> [kind |-> "literal", rule |-> 0],
            needs_confirm |-> _is_dangerous(user_input)]
      ELSE [command |-> <<>>, description |-> [kind |-> "unrecognized", rule |-> 0],
            needs_confirm |-> FALSE]

-----------------------------------------------------------------------------
(* Inputs for NLPProcessor exercised on its own                             *)

u_reboot_server == <<"u91cd", "u542f", "u670d", "u52a1", "u5668">>
u_reboot == <<"u91cd", "u542f">>
u_disk_space == <<"u67e5", "u770b", "u78c1", "u76d8", "u7a7a", "u95f4">>
u_help == <<"u5e2e", "u52a9">>
u_kill_process == <<"u6740", "u8fdb", "u7a0b">>
u_shutdown == <<"u5173", "u673a">>
u_hello == <<"u4f60", "u597d">>
u_sudo_reboot == <<"s", "u", "d", "o", " ", "r", "e", "b", "o", "o", "t">>
u_rm_rf == <<"r", "m", " ", "-", "r", "f", " ", "/", "t", "m", "p", "/", "x">>
u_chmod == <<"c", "h", "m", "o", "d", " ", "-", "R", " ", "7", "7", "7", " ", "/">>
u_ls == <<"l", "s", " ", "-", "l", "a", " ", "/", "t", "m", "p">>
u_df_padded == <<" ", " ", "D", "F", " ", "-", "h", " ", " ">>
u_sbin_reboot == <<"/", "s", "b", "i", "n", "/", "r", "e", "b", "o", "o", "t">>
u_run_sh == <<".", "/", "r", "u", "n", ".", "s", "h">>
u_blank == <<" ", " ", " ">>
u_echo_help == <<"e", "c", "h", "o", " ", "h", "e", "l", "p">>
u_date == <<"d", "a", "t", "e">>
u_ping == <<"p", "i", "n", "g", " ", "1", "0", ".", "0", ".", "0", ".", "2">>
u_cat == <<"c", "a", "t", " ", "/", "t", "m", "p", "/", "x">>
\* ci-pan bang-zhu (disk help)
u_disk_help == <<"u78c1", "u76d8", "u5e2e", "u52a9">>

Utterances ==
  { u_reboot_server, u_reboot, u_disk_space, u_help, u_kill_process, u_shutdown,
    u_hello, u_sudo_reboot, u_rm_rf, u_chmod, u_ls, u_df_padded, u_sbin_reboot,
    u_run_sh, u_blank, u_echo_help, u_date, u_ping, u_cat, u_disk_help, <<>> }

p_sudo == <<"s", "u", "d", "o", " ">>
p_tail == <<" ", "/", "t", "m", "p", "/", "x">>
c_REBOOT == <<"R", "E", "B", "O", "O", "T">>
c_Rm_Rf == <<"R", "m", " ", "-", "R", "f">>
c_chmod_lower == <<"c", "h", "m", "o", "d", " ", "-", "r", " ", "7", "7", "7", " ", "/">>
c_rm_r == <<"r", "m", " ", "-", "r">>
c_dd_of == <<"d", "d", " ", "o", "f", "=">>
c_mkfs_upper == <<"M", "K", "F", "S">>

\* command strings built around every catalog entry, a few re-cased entries and
\* a few harmless look-alikes
ProbeCores ==
  {dangerous_commands[d] : d \in 1..Len(dangerous_commands)}
    \cup {c_REBOOT, c_Rm_Rf, c_mkfs_upper, c_chmod_lower, c_rm_r, c_dd_of, u_ls, <<>>}

DangerProbes ==
  {p \o c \o s : p \in {<<>>, p_sudo}, c \in ProbeCores, s \in {<<>>, p_tail}}

NlpInputs == Utterances \cup DangerProbes

NoCall == [op |-> "none"]

\* how many times in a row one utterance is resolved
MaxRepeat == 2

\* a resolver call whose answer depends on the call before it
NlpProcess_remembers ==
  /\ nlp_result.op = "process" => nlp_result.calls < MaxRepeat
  /\ nlp_result' = [op |-> "process", input |-> nlp_input,
                    result |-> IF nlp_result.op = "process"
                               THEN [process(nlp_input) EXCEPT !.needs_confirm = TRUE]
                               ELSE process(nlp_input),
                    calls |-> IF nlp_result.op = "process" THEN nlp_result.calls + 1 ELSE 1]
  /\ UNCHANGED <<nlp_input, mem_vars, ai_vars, gui_vars>>

\* process(nlp_input); calls counts the calls made in a row on this utterance
NlpProcess ==
  /\ nlp_result.op = "process" => nlp_result.calls < MaxRepeat
  /\ nlp_result' = [op |-> "process", input |-> nlp_input, result |-> process(nlp_input),
                    calls |-> IF nlp_result.op = "process" THEN nlp_result.calls + 1 ELSE 1]
  /\ UNCHANGED <<nlp_input, mem_vars, ai_vars, gui_vars>>

NlpIsDangerous ==
  /\ nlp_result' = [op |-> "_is_dangerous", input |-> nlp_input,
                    result |-> _is_dangerous(nlp_input)]
  /\ UNCHANGED <<nlp_input, mem_vars, ai_vars, gui_vars>>

NlpNewInput ==
  /\ nlp_result # NoCall
  /\ \E u \in NlpInputs : nlp_input' = u
  /\ nlp_result' = NoCall
  /\ UNCHANGED <<mem_vars, ai_vars, gui_vars>>

-----------------------------------------------------------------------------
(* MemoryManager (memory_manager.py)                                       *)

max_context_items == 15
max_output_chars == 1000
max_session_turns == 10
RetentionCeiling == 200

\* None and "" are told apart nowhere in MemoryManager (`if not self.current_ip`,
\* `ip or self.current_ip`): both are the empty text here
NoIp == <<>>

h_A == <<"1", "0", ".", "0", ".", "0", ".", "1">>
h_B == <<"1", "0", "_", "0", "_", "0", "_", "1">>
h_C == <<"1", "0", ".", "0", ".", "0", ".", "2">>
Hosts == {h_A, h_B, h_C}

\* os.path.join(memory_dir, safe_ip + ".json"); the directory is fixed
_get_memory_file(ip) ==
  [i \in 1..Len(ip) |-> IF ip[i] \in {".", ":"} THEN "_" ELSE ip[i]]
    \o <<".", "j", "s", "o", "n">>

\* str(n) for n >= 0
RECURSIVE Decimal(_)
Decimal(n) ==
  LET digit == <<"0", "1", "2", "3", "4", "5", "6", "7", "8", "9">>
  IN  IF n < 10 THEN <<digit[n + 1]>> ELSE Decimal(n \div 10) \o <<digit[(n % 10) + 1]>>

\* a cut that also marks an output of exactly max_output_chars characters
TruncateOutput_marks_at_ceiling(output) ==
  LET head == SubSeq(output, 1, IF Len(output) < max_output_chars
                                THEN Len(output) ELSE max_output_chars)
  IN  IF Len(output) >= max_output_chars
      THEN head \o <<"\n", ".", ".", ".", " ", "(", "u5171", " ">> \o Decimal(Len(output))
                \o <<" ", "u5b57", "u7b26", "uff0c", "u5df2", "u622a", "u53d6", "u524d", " ">>
                \o Decimal(max_output_chars) \o <<" ", "u5b57", "u7b26", ")">>
      ELSE head

\* output[:max_output_chars], plus the marker when something was cut
TruncateOutput(output) ==
  LET head == SubSeq(output, 1, IF Len(output) < max_output_chars
                                THEN Len(output) ELSE max_output_chars)
  IN  IF Len(output) > max_output_chars
      THEN head \o <<"\n", ".", ".", ".", " ", "(", "u5171", " ">> \o Decimal(Len(output))
                \o <<" ", "u5b57", "u7b26", "uff0c", "u5df2", "u622a", "u53d6", "u524d", " ">>
                \o Decimal(max_output_chars) \o <<" ", "u5b57", "u7b26", ")">>
      ELSE head

\* the record add_operation builds
MakeRecord(now, user_input, command, output, success) ==
  [time |-> now, input |-> user_input, command |-> command,
   output |-> TruncateOutput(output), output_length |-> Len(output),
   success |-> success]

\* memory[-n:]
LastN(s, n) == IF Len(s) > n THEN SubSeq(s, Len(s) - n + 1, Len(s)) ELSE s

\* a dump that leaves the original length out
JsonDumpRecord_without_length(r) ==
  << <<"time", r.time>>, <<"input", r.input>>, <<"command", r.command>>,
     <<"output", r.output>>, <<"success", r.success>> >>

\* json.dump of one history record: the members of a JSON object, in key order
JsonDumpRecord(r) ==
  << <<"time", r.time>>, <<"input", r.input>>, <<"command", r.command>>,
     <<"output", r.output>>, <<"output_length", r.output_length>>,
     <<"success", r.success>> >>

\* json.dump(data) of save_memory: a complete JSON document
JsonDump(ip, now, memory) ==
  [valid |-> TRUE,
   members |-> << <<"ip", ip>>, <<"last_updated", now>>,
                  <<"total_operations", Len(memory)>>,
                  <<"history", [i \in 1..Len(memory) |-> JsonDumpRecord(memory[i])]>> >>]

\* what is left of a file when the write breaks off: not a JSON document
TruncatedFile == [valid |-> FALSE, members |-> <<>>]

\* json.load of an object: the dict of its members (a repeated key keeps the last)
JsonLoadObject(members) ==
  [k \in {members[i][1] : i \in DOMAIN members} |->
     members[CHOOSE i \in DOMAIN members :
               members[i][1] = k /\ \A j \in DOMAIN members : j > i => members[j][1] # k][2]]

\* data.get("history", []) after json.load(f)
JsonLoadHistory(content) ==
  LET data == JsonLoadObject(content.members)
  IN  IF "history" \in DOMAIN data
      THEN [i \in 1..Len(data["history"]) |-> JsonLoadObject(data["history"][i])]
      ELSE <<>>

\* ---- load_memory(ip); read_ok is whether open/read raised no IOError
LoadedHistory(ip, read_ok) ==
  LET memory_file == _get_memory_file(ip)
  IN  IF memory_file \in DOMAIN files
      THEN IF read_ok /\ files[memory_file].valid
           THEN JsonLoadHistory(files[memory_file])
           ELSE <<>>
      ELSE <<>>

\* a load that keeps what is in working memory when the host has no file
load_memory_keeps_when_missing(ip, read_ok) ==
  /\ current_ip' = ip
  /\ session_history' = <<>>
  /\ current_memory' = IF _get_memory_file(ip) \in DOMAIN files
                        THEN LoadedHistory(ip, read_ok) ELSE current_memory
  /\ mem_log' = current_memory'
  /\ mem_last' = [n |-> mem_last.n + 1, op |-> "load_memory", ip |-> ip, io_ok |-> read_ok]
  /\ UNCHANGED <<files, clock>>

\* load_memory(ip), current_ip, session_history and current_memory assigned
load_memory(ip, read_ok) ==
  /\ current_ip' = ip
  /\ session_history' = <<>>
  /\ current_memory' = LoadedHistory(ip, read_ok)
  /\ mem_log' = current_memory'
  /\ mem_last' = [n |-> mem_last.n + 1, op |-> "load_memory", ip |-> ip, io_ok |-> read_ok]
  /\ UNCHANGED <<files, clock>>

\* ---- save_memory(): the directory after the call.  outcome is "ok",
\* "open_failed" (IOError before anything is written) or "write_failed"
\* (IOError after open(..., 'w') truncated the file)
SavedFiles(ip, memory, now, outcome) ==
  IF ip = NoIp \/ outcome = "open_failed"
  THEN files
  ELSE LET memory_file == _get_memory_file(ip)
           content == IF outcome = "ok" THEN JsonDump(ip, now, memory) ELSE TruncatedFile
       IN  [f \in DOMAIN files \cup {memory_file} |->
              IF f = memory_file THEN content ELSE files[f]]

SaveOutcomes == {"ok", "open_failed", "write_failed"}

save_memory(outcome) ==
  /\ clock' = clock + 1
  /\ files' = SavedFiles(current_ip, current_memory, clock', outcome)
  /\ mem_last' = [n |-> mem_last.n + 1, op |-> "save_memory", ip |-> current_ip,
                  io_ok |-> (outcome = "ok")]
  /\ UNCHANGED <<current_ip, current_memory, session_history, mem_log>>

\* a save_memory that lets the IOError through
SaveRaises_propagates(ip, outcome) == ip # NoIp /\ outcome # "ok"

\* ---- what reaches the caller of save_memory() as an exception: the IOError
\* of open or json.dump is caught and printed (lines 69-72)
SaveRaises(ip, outcome) == FALSE

\* ---- get_context_for_ai()
\* zhe shi shou-ci cao-zuo ci fu-wu-qi, zan wu li-shi ji-lu (no history yet)
no_history_sentence ==
  <<"u8fd9", "u662f", "u9996", "u6b21", "u64cd", "u4f5c", "u6b64", "u670d", "u52a1", "u5668", "uff0c", "u6682", "u65e0", "u5386", "u53f2", "u8bb0", "u5f55", "u3002">>

\* the first five lines of the output, and "\n..." when there are more
OutputPreview(output) ==
  LET breaks == {i \in 1..Len(output) : output[i] = "\n"}
  IN  IF Cardinality(breaks) < 5
      THEN output
      ELSE LET fifth == CHOOSE p \in breaks : Cardinality({q \in breaks : q <= p}) = 5
           IN  SubSeq(output, 1, fifth - 1) \o <<"\n", ".", ".", ".">>

\* the lines of operation i, each preceded by the "\n" of the join, and the
\* empty line that closes the entry
EntryText(i, record) ==
  <<"\n">> \o <<"-", "-", "-", " ", "u64cd", "u4f5c", " ">> \o Decimal(i) \o <<" ", "[">> \o Decimal(record.time) \o <<"]", " ">>
    \o (IF record.success THEN <<"u2705", " ", "u6210", "u529f">> ELSE <<"u274c", " ", "u5931", "u8d25">>) \o <<" ", "-", "-", "-">>
    \o <<"\n">> \o <<"u7528", "u6237", "u8bf7", "u6c42", ":", " ">> \o record.input
    \o <<"\n">> \o <<"u6267", "u884c", "u547d", "u4ee4", ":", " ">> \o record.command
    \o (IF record.output # <<>>
        THEN <<"\n">> \o <<"u8f93", "u51fa", "u6458", "u8981", ":">> \o <<"\n">> \o OutputPreview(record.output)
        ELSE <<>>)
    \o <<"\n">>

RECURSIVE ContextEntries(_, _)
ContextEntries(recent, i) ==
  IF i > Len(recent) THEN <<>>
  ELSE EntryText(i, recent[i]) \o ContextEntries(recent, i + 1)

\* a rendering that has nothing to say about an empty history
get_context_for_ai_blank_when_empty(memory) ==
  IF memory = <<>>
  THEN <<>>
  ELSE LET recent == LastN(memory, max_context_items)
       IN  <<"u3010", "u670d", "u52a1", "u5668", "u64cd", "u4f5c", "u5386", "u53f2", "u3011", "u5171", " ">> \o Decimal(Len(memory)) \o <<" ", "u6761", "u8bb0", "u5f55", "uff0c", "u4ee5", "u4e0b", "u662f", "u6700", "u8fd1", " ">> \o Decimal(Len(recent)) \o <<" ", "u6761", "uff1a">>
             \o <<"\n">> \o ContextEntries(recent, 1)

\* a rendering of the oldest records instead of the latest
get_context_for_ai_oldest_slice(memory) ==
  IF memory = <<>>
  THEN no_history_sentence
  ELSE LET recent == SubSeq(memory, 1, IF Len(memory) < max_context_items
                                       THEN Len(memory) ELSE max_context_items)
       IN  <<"u3010", "u670d", "u52a1", "u5668", "u64cd", "u4f5c", "u5386", "u53f2", "u3011", "u5171", " ">> \o Decimal(Len(memory)) \o <<" ", "u6761", "u8bb0", "u5f55", "uff0c", "u4ee5", "u4e0b", "u662f", "u6700", "u8fd1", " ">> \o Decimal(Len(recent)) \o <<" ", "u6761", "uff1a">>
             \o <<"\n">> \o ContextEntries(recent, 1)

\* "\n".join(context_lines)
get_context_for_ai(memory) ==
  IF memory = <<>>
  THEN no_history_sentence
  ELSE LET recent == LastN(memory, max_context_items)
       IN  <<"u3010", "u670d", "u52a1", "u5668", "u64cd", "u4f5c", "u5386", "u53f2", "u3011", "u5171", " ">> \o Decimal(Len(memory)) \o <<" ", "u6761", "u8bb0", "u5f55", "uff0c", "u4ee5", "u4e0b", "u662f", "u6700", "u8fd1", " ">> \o Decimal(Len(recent)) \o <<" ", "u6761", "uff1a">>
             \o <<"\n">> \o ContextEntries(recent, 1)

\* a summary that takes every record for a success
get_friendly_summary_counts_all(memory) ==
  IF memory = <<>>
  THEN <<"u9996", "u6b21", "u8fde", "u63a5", "u6b64", "u670d", "u52a1", "u5668">>
  ELSE <<"u5df2", "u6709", " ">> \o Decimal(Len(memory)) \o <<" ", "u6761", "u8bb0", "u5f55", " ", "(", "u6210", "u529f", " ">> \o Decimal(Len(memory))
         \o <<" ", "u6b21", ")", "uff0c", "u4e0a", "u6b21", ":", " ">> \o Decimal(memory[Len(memory)].time)

\* ---- get_friendly_summary()
get_friendly_summary(memory) ==
  IF memory = <<>>
  THEN <<"u9996", "u6b21", "u8fde", "u63a5", "u6b64", "u670d", "u52a1", "u5668">>
  ELSE LET success_count == Cardinality({i \in 1..Len(memory) : memory[i].success})
       IN  <<"u5df2", "u6709", " ">> \o Decimal(Len(memory)) \o <<" ", "u6761", "u8bb0", "u5f55", " ", "(", "u6210", "u529f", " ">> \o Decimal(success_count)
             \o <<" ", "u6b21", ")", "uff0c", "u4e0a", "u6b21", ":", " ">> \o Decimal(memory[Len(memory)].time)

\* ---- search_history(keyword)
search_history(memory, keyword) ==
  LET keyword_lower == Lower(keyword)
      Hit(record) == \/ Contains(Lower(record.input), keyword_lower)
                     \/ Contains(Lower(record.command), keyword_lower)
                     \/ Contains(Lower(record.output), keyword_lower)
  IN  SelectSeq(memory, Hit)

\* the assistant turn add_operation derives: "zhi-xing ming-ling: <command>\n shu-chu:\n<output>"
AssistantTurn(command, truncated_output) ==
  [role |-> "assistant",
   content |-> <<"u6267", "u884c", "u547d", "u4ee4", ":", " ">> \o command
                 \o <<"\n", "u8f93", "u51fa", ":", "\n">> \o truncated_output]

\* the window cut at its front: the newest turns are the ones dropped
SessionAfterAppend_keeps_oldest(history, record) ==
  LET grown == history \o << [role |-> "user", content |-> record.input],
                             AssistantTurn(record.command, record.output) >>
  IN  IF Len(grown) > max_session_turns * 2
      THEN SubSeq(grown, 1, max_session_turns * 2)
      ELSE grown

\* session_history after add_operation
SessionAfterAppend(history, record) ==
  LET grown == history \o << [role |-> "user", content |-> record.input],
                             AssistantTurn(record.command, record.output) >>
  IN  IF Len(grown) > max_session_turns * 2
      THEN LastN(grown, max_session_turns * 2)
      ELSE grown

\* the trim keeping the oldest records instead of the newest
MemoryAfterAppend_keeps_oldest(memory, record) ==
  LET grown == Append(memory, record)
  IN  IF Len(grown) > RetentionCeiling THEN SubSeq(grown, 1, RetentionCeiling) ELSE grown

\* current_memory after add_operation
MemoryAfterAppend(memory, record) ==
  LET grown == Append(memory, record)
  IN  IF Len(grown) > RetentionCeiling THEN LastN(grown, RetentionCeiling) ELSE grown

\* ---- add_operation(user_input, command, output, success), save_memory() included
add_operation(user_input, command, output, success, outcome) ==
  LET record == MakeRecord(clock + 1, user_input, command, output, success)
  IN  /\ clock' = clock + 2
      /\ current_memory' = MemoryAfterAppend(current_memory, record)
      /\ session_history' = SessionAfterAppend(session_history, record)
      /\ files' = SavedFiles(current_ip, current_memory', clock', outcome)
      /\ mem_log' = Append(mem_log, record)
      /\ mem_last' = [n |-> mem_last.n + 1, op |-> "add_operation", ip |-> current_ip,
                      io_ok |-> (outcome = "ok"),
                      raised |-> SaveRaises(current_ip, outcome)]
      /\ UNCHANGED current_ip

\* an add_ai_response that also notes the analysis in the last record
add_ai_response_into_record(ai_response) ==
  /\ session_history' =
       IF session_history # <<>> /\ session_history[Len(session_history)].role = "assistant"
       THEN [session_history EXCEPT ![Len(session_history)].content =
               @ \o <<"\n", "\n", "A", "I", "u5206", "u6790", ":", " ">> \o ai_response]
       ELSE Append(session_history, [role |-> "assistant", content |-> ai_response])
  /\ current_memory' =
       IF current_memory # <<>>
       THEN [current_memory EXCEPT ![Len(current_memory)].output = @ \o ai_response]
       ELSE current_memory
  /\ mem_last' = [n |-> mem_last.n + 1, op |-> "add_ai_response", ip |-> current_ip, io_ok |-> TRUE]
  /\ UNCHANGED <<current_ip, files, clock, mem_log>>

\* ---- add_ai_response(ai_response)
add_ai_response(ai_response) ==
  /\ session_history' =
       IF session_history # <<>> /\ session_history[Len(session_history)].role = "assistant"
       THEN [session_history EXCEPT ![Len(session_history)].content =
               @ \o <<"\n", "\n", "A", "I", "u5206", "u6790", ":", " ">> \o ai_response]
       ELSE Append(session_history, [role |-> "assistant", content |-> ai_response])
  /\ mem_last' = [n |-> mem_last.n + 1, op |-> "add_ai_response", ip |-> current_ip, io_ok |-> TRUE]
  /\ UNCHANGED <<current_ip, current_memory, files, clock, mem_log>>

\* ---- clear_session()
clear_session ==
  /\ session_history' = <<>>
  /\ mem_last' = [n |-> mem_last.n + 1, op |-> "clear_session", ip |-> current_ip, io_ok |-> TRUE]
  /\ UNCHANGED <<current_ip, current_memory, files, clock, mem_log>>

\* a clear that empties working memory whichever host was named
clear_memory_empties_always(ip, remove_ok) ==
  LET target_ip == IF ip # NoIp THEN ip ELSE current_ip
      memory_file == _get_memory_file(target_ip)
  IN  IF target_ip = NoIp
      THEN /\ mem_last' = [n |-> mem_last.n + 1, op |-> "clear_memory", ip |-> target_ip, io_ok |-> TRUE]
           /\ UNCHANGED <<current_ip, current_memory, session_history, files, clock, mem_log>>
      ELSE /\ files' = IF memory_file \in DOMAIN files /\ remove_ok
                       THEN [f \in DOMAIN files \ {memory_file} |-> files[f]]
                       ELSE files
           /\ current_memory' = <<>> /\ session_history' = <<>> /\ mem_log' = <<>>
           /\ mem_last' = [n |-> mem_last.n + 1, op |-> "clear_memory", ip |-> target_ip,
                           io_ok |-> (memory_file \in DOMAIN files => remove_ok)]
           /\ UNCHANGED <<current_ip, clock>>

\* ---- clear_memory(ip=None); remove_ok is whether os.remove raised no IOError
clear_memory(ip, remove_ok) ==
  LET target_ip == IF ip # NoIp THEN ip ELSE current_ip
      memory_file == _get_memory_file(target_ip)
  IN  IF target_ip = NoIp
      THEN /\ mem_last' = [n |-> mem_last.n + 1, op |-> "clear_memory", ip |-> target_ip, io_ok |-> TRUE]
           /\ UNCHANGED <<current_ip, current_memory, session_history, files, clock, mem_log>>
      ELSE /\ files' = IF memory_file \in DOMAIN files /\ remove_ok
                       THEN [f \in DOMAIN files \ {memory_file} |-> files[f]]
                       ELSE files
           /\ IF target_ip = current_ip
              THEN current_memory' = <<>> /\ session_history' = <<>> /\ mem_log' = <<>>
              ELSE UNCHANGED <<current_memory, session_history, mem_log>>
           /\ mem_last' = [n |-> mem_last.n + 1, op |-> "clear_memory", ip |-> target_ip,
                           io_ok |-> (memory_file \in DOMAIN files => remove_ok)]
           /\ UNCHANGED <<current_ip, clock>>

\* ---- the pure readers
get_last_command == IF current_memory # <<>>
                    THEN current_memory[Len(current_memory)].command ELSE <<>>

\* ---- the memory directory as it can be found at start-up: files an earlier
\* run of save_memory left there
StoredRecord(i) ==
  [time |-> i, input |-> u_disk_space, command |-> <<"d", "f", " ", "-", "h">>,
   output |-> <<"o", "k">>, output_length |-> 2, success |-> (i % 3 # 0)]

StoredHistory(n) == [i \in 1..n |-> StoredRecord(i)]

StoredFile(ip, n) == JsonDump(ip, n, StoredHistory(n))

EmptyDir == [f \in {} |-> TruncatedFile]

MemoryDirs ==
  { EmptyDir,
    [f \in {_get_memory_file(h_A)} |-> StoredFile(h_A, RetentionCeiling - 1)],
    [f \in {_get_memory_file(h_A)} |-> StoredFile(h_A, RetentionCeiling)],
    [f \in {_get_memory_file(h_A)} |-> TruncatedFile],
    [f \in {_get_memory_file(h_A), _get_memory_file(h_C)} |->
       IF f = _get_memory_file(h_A) THEN StoredFile(h_A, 2) ELSE StoredFile(h_C, 1)] }

\* MemoryManager.__init__ over a given directory
MemInit(dir) ==
  /\ current_ip = NoIp
  /\ current_memory = <<>>
  /\ session_history = <<>>
  /\ files = dir
  /\ clock = RetentionCeiling
  /\ mem_log = <<>>
  /\ mem_last = [n |-> 0, op |-> "init", ip |-> NoIp, io_ok |-> TRUE]

-----------------------------------------------------------------------------
(* The completion endpoint, as both clients see it                         *)

a_rm_rf == <<"r", "m", " ", "-", "r", "f", " ", "/", "v", "a", "r", "/", "t", "m", "p">>
a_uptime == <<"u", "p", "t", "i", "m", "e">>
a_reboot == <<"r", "e", "b", "o", "o", "t">>

\* One line of response text: a code-fence marker, a JSON object, a JSON array
\* (valid JSON that is no object) or prose.
FenceLine == [t |-> "fence", fields |-> <<>>]
ProseLine == [t |-> "prose", fields |-> <<>>]
ArrayLine == [t |-> "array", fields |-> <<>>]
ObjectLine(fields) == [t |-> "object", fields |-> fields]

obj_rm_flagged ==
  [command |-> a_rm_rf, description |-> "delete /var/tmp", dangerous |-> TRUE,
   explanation |-> "rm -rf removes the tree", friendly_note |-> "careful",
   follow_up |-> ""]
obj_rm_unflagged ==
  [command |-> a_rm_rf, description |-> "delete /var/tmp", dangerous |-> FALSE,
   explanation |-> "rm -rf removes the tree", friendly_note |-> "", follow_up |-> ""]
obj_uptime ==
  [command |-> a_uptime, description |-> "show uptime", dangerous |-> FALSE,
   explanation |-> "uptime prints the load", friendly_note |-> "", follow_up |-> "free -h"]
obj_ask ==
  [command |-> <<>>, description |-> "need more information", dangerous |-> FALSE,
   explanation |-> "which process?", friendly_note |-> "", follow_up |-> ""]
obj_reboot_bare == [command |-> a_reboot]

\* What chat.completions.create(...) followed by .content.strip() gives: an
\* exception, or the lines of the text
Raised == [kind |-> "raise", lines |-> <<>>]
Text(lines) == [kind |-> "text", lines |-> lines]

Responses ==
  { Raised,
    Text(<<ObjectLine(obj_rm_flagged)>>),
    Text(<<ObjectLine(obj_rm_unflagged)>>),
    Text(<<ObjectLine(obj_uptime)>>),
    Text(<<ObjectLine(obj_ask)>>),
    Text(<<ObjectLine(obj_reboot_bare)>>),
    Text(<<FenceLine, ObjectLine(obj_rm_flagged), FenceLine>>),
    Text(<<FenceLine, ObjectLine(obj_uptime)>>),
    Text(<<ProseLine>>),
    Text(<<ArrayLine>>) }

\* a strip that drops the opening fence line only
StripFence_first_only(lines) ==
  IF lines # <<>> /\ lines[1].t = "fence" THEN SubSeq(lines, 2, Len(lines)) ELSE lines

\* if content.startswith("```"): content = "\n".join(content.split("\n")[1:-1])
StripFence(lines) ==
  IF lines # <<>> /\ lines[1].t = "fence" THEN SubSeq(lines, 2, Len(lines) - 1) ELSE lines

\* json.loads(content) raises JSONDecodeError unless the text is one JSON value
JsonLoadsOk(lines) == Len(lines) = 1 /\ lines[1].t \in {"object", "array"}

\* dict.get(key, default)
Get(d, key, default) == IF key \in DOMAIN d THEN d[key] ELSE default

-----------------------------------------------------------------------------
(* AIProviderBase and AIProviderManager (ai_providers.py)                  *)

\* the keys of AIProviderManager.PROVIDERS; "Qwen" stands for tong-yi-qian-wen
ProviderNames == {"DeepSeek", "OpenAI", "Qwen", "Ollama"}

DefaultModel(name) ==
  CASE name = "DeepSeek" -> "deepseek-chat"
    [] name = "OpenAI" -> "gpt-4o-mini"
    [] name = "Qwen" -> "qwen-turbo"
    [] name = "Ollama" -> "qwen2.5:7b"

BaseUrl(name) ==
  CASE name = "DeepSeek" -> "https://api.deepseek.com"
    [] name = "OpenAI" -> "https://api.openai.com/v1"
    [] name = "Qwen" -> "https://dashscope.aliyuncs.com/compatible-mode/v1"
    [] name = "Ollama" -> "http://localhost:11434/v1"

\* current_provider = None
NoProvider == "None"

\* AIProviderBase.is_configured
is_configured(p) == p.client

\* a configure whose failed construction still leaves a client behind
configure_half_done(p, api_key, model, ctor_ok) ==
  LET keyed == [p EXCEPT !.api_key = IF p.name = "Ollama" THEN "ollama" ELSE api_key]
  IN  IF ctor_ok
      THEN [provider |-> [keyed EXCEPT !.client = TRUE,
                                       !.default_model = IF model # "" THEN model ELSE @],
            returned |-> TRUE]
      ELSE [provider |-> [keyed EXCEPT !.client = TRUE], returned |-> FALSE]

\* a configure whose failed construction throws the old client away
configure_drops_client(p, api_key, model, ctor_ok) ==
  LET keyed == [p EXCEPT !.api_key = IF p.name = "Ollama" THEN "ollama" ELSE api_key]
  IN  IF ctor_ok
      THEN [provider |-> [keyed EXCEPT !.client = TRUE,
                                       !.default_model = IF model # "" THEN model ELSE @],
            returned |-> TRUE]
      ELSE [provider |-> [keyed EXCEPT !.client = FALSE], returned |-> FALSE]

\* AIProviderBase.configure / OllamaProvider.configure on one provider:
\* ctor_ok is whether OpenAI(...) returned without raising; model "" is None
configure(p, api_key, model, ctor_ok) ==
  LET keyed == [p EXCEPT !.api_key = IF p.name = "Ollama" THEN "ollama" ELSE api_key]
  IN  IF ctor_ok
      THEN [provider |-> [keyed EXCEPT !.client = TRUE,
                                       !.default_model = IF model # "" THEN model ELSE @],
            returned |-> TRUE]
      ELSE [provider |-> keyed, returned |-> FALSE]

\* the tuple parse_command returns
Result6(command, description, dangerous, explanation, friendly_note, follow_up) ==
  [command |-> command, description |-> description, dangerous |-> dangerous,
   explanation |-> explanation, friendly_note |-> friendly_note, follow_up |-> follow_up]

\* AIProviderBase.parse_command, from the response on (lines 131-152)
ProviderParseResponse(response) ==
  IF response.kind = "raise"
  THEN Result6(<<>>, "AI diao-yong shi-bai", FALSE, "str(e)", "", "")
  ELSE LET content == StripFence(response.lines)
       IN  IF ~JsonLoadsOk(content)
           THEN Result6(<<>>, "AI xiang-ying jie-xi shi-bai", FALSE,
                        "wu-fa jie-xi AI xiang-ying", "", "")
           ELSE IF content[1].t # "object"
           THEN Result6(<<>>, "AI diao-yong shi-bai", FALSE, "str(e)", "", "")
           ELSE LET result == content[1].fields
                IN  Result6(Get(result, "command", <<>>), Get(result, "description", ""),
                            Get(result, "dangerous", FALSE), Get(result, "explanation", ""),
                            Get(result, "friendly_note", ""), Get(result, "follow_up", ""))

\* AIProviderBase.parse_command: the result and whether the endpoint was called
ProviderParseCommand(p, response) ==
  IF ~is_configured(p)
  THEN [result |-> Result6(<<>>, "AI wei-pei-zhi", FALSE, "qing xian she-zhi API Key", "", ""),
        called |-> FALSE]
  ELSE [result |-> ProviderParseResponse(response), called |-> TRUE]

\* AIProviderManager.get_current_provider: a provider name, or NoProvider
get_current_provider ==
  IF current_provider # NoProvider /\ current_provider \in DOMAIN providers
  THEN current_provider ELSE NoProvider

\* a manager that, with nothing selected, quietly uses any configured provider
ManagerParseCommand_falls_back(response) ==
  IF get_current_provider = NoProvider
  THEN IF \E name \in DOMAIN providers : is_configured(providers[name])
       THEN ProviderParseCommand(
              providers[CHOOSE name \in DOMAIN providers : is_configured(providers[name])],
              response)
       ELSE [result |-> Result6(<<>>, "wei-pei-zhi AI", FALSE,
                                "qing xian xuan-ze bing pei-zhi AI ti-gong-shang", "", ""),
             called |-> FALSE]
  ELSE ProviderParseCommand(providers[get_current_provider], response)

\* AIProviderManager.parse_command
ManagerParseCommand(response) ==
  IF get_current_provider = NoProvider
  THEN [result |-> Result6(<<>>, "wei-pei-zhi AI", FALSE,
                           "qing xian xuan-ze bing pei-zhi AI ti-gong-shang", "", ""),
        called |-> FALSE]
  ELSE ProviderParseCommand(providers[get_current_provider], response)

NoResult == Result6(<<>>, "", FALSE, "", "", "")

AiLast(op, name, returned, result) ==
  [op |-> op, name |-> name, returned |-> returned, result |-> result,
   n |-> ai_last.n + 1, selected_before |-> current_provider,
   calls_before |-> endpoint_calls]

\* a configure that also makes the provider the current one
configure_provider_selects(name, api_key, model, ctor_ok) ==
  /\ IF name \notin DOMAIN providers
     THEN /\ providers' = providers
          /\ current_provider' = current_provider
          /\ ai_last' = AiLast("configure_provider", name, FALSE, NoResult)
     ELSE LET c == configure(providers[name], api_key, model, ctor_ok)
          IN  /\ providers' = [providers EXCEPT ![name] = c.provider]
              /\ current_provider' = IF c.returned THEN name ELSE current_provider
              /\ ai_last' = AiLast("configure_provider", name, c.returned, NoResult)
  /\ UNCHANGED endpoint_calls

\* ---- configure_provider(name, api_key, model)
configure_provider(name, api_key, model, ctor_ok) ==
  /\ IF name \notin DOMAIN providers
     THEN /\ providers' = providers
          /\ ai_last' = AiLast("configure_provider", name, FALSE, NoResult)
     ELSE LET c == configure(providers[name], api_key, model, ctor_ok)
          IN  /\ providers' = [providers EXCEPT ![name] = c.provider]
              /\ ai_last' = AiLast("configure_provider", name, c.returned, NoResult)
  /\ UNCHANGED <<current_provider, endpoint_calls>>

\* a select that does not ask whether the provider is configured
set_current_provider_unchecked(name) ==
  /\ IF name \in DOMAIN providers
     THEN /\ current_provider' = name
          /\ ai_last' = AiLast("set_current_provider", name, TRUE, NoResult)
     ELSE /\ current_provider' = current_provider
          /\ ai_last' = AiLast("set_current_provider", name, FALSE, NoResult)
  /\ UNCHANGED <<providers, endpoint_calls>>

\* ---- set_current_provider(name)
set_current_provider(name) ==
  /\ IF name \in DOMAIN providers /\ is_configured(providers[name])
     THEN /\ current_provider' = name
          /\ ai_last' = AiLast("set_current_provider", name, TRUE, NoResult)
     ELSE /\ current_provider' = current_provider
          /\ ai_last' = AiLast("set_current_provider", name, FALSE, NoResult)
  /\ UNCHANGED <<providers, endpoint_calls>>

\* a message list that takes the window from its front
Messages_oldest_first(system_prompt, session_messages, user_input) ==
  << [role |-> "system", content |-> system_prompt] >>
    \o SubSeq(session_messages, 1,
              IF Len(session_messages) < 10 THEN Len(session_messages) ELSE 10)
    \o << [role |-> "user", content |-> user_input] >>

\* the messages AIProviderBase.parse_command sends (lines 114-122)
Messages(system_prompt, session_messages, user_input) ==
  << [role |-> "system", content |-> system_prompt] >>
    \o LastN(session_messages, 10)
    \o << [role |-> "user", content |-> user_input] >>

\* ---- parse_command(user_input, ...) of the manager, called for the utterance
\* u_disk_space with session_messages = get_session_messages(), a copy of
\* session_history; the messages are recorded when the endpoint is called
parse_command(response) ==
  LET r == ManagerParseCommand(response)
  IN  /\ endpoint_calls' = endpoint_calls + (IF r.called THEN 1 ELSE 0)
      /\ ai_last' = AiLast("parse_command", current_provider, r.called, r.result)
                      @@ [response |-> response]
                      @@ (IF r.called
                          THEN [messages |-> Messages(<<"system_prompt">>, session_history,
                                                      u_disk_space)]
                          ELSE <<>>)
      /\ UNCHANGED <<providers, current_provider>>

\* ---- analyze_output(user_input, command, output, os_type, server_info)
\* the fixed parts of the prompt (lines 175-193)
prompt_request ==
  <<"u4f60", "u662f", "u4e00", "u4e2a", "u4e13", "u4e1a", "u7684", " ", "L", "i", "n", "u",
     "x", " ", "u8fd0", "u7ef4", "u4e13", "u5bb6", "uff0c", "u8bf7", "u5206", "u6790",
     "u4ee5", "u4e0b", "u547d", "u4ee4", "u7684", "u8f93", "u51fa", "u7ed3", "u679c",
     "uff0c", "u7528", "u7b80", "u6d01", "u53cb", "u597d", "u7684", "u4e2d", "u6587",
     "u56de", "u7b54", "u7528", "u6237", "u3002", "\n", "\n", "u3010", "u7528", "u6237",
     "u8bf7", "u6c42", "u3011">>
prompt_command == <<"\n", "u3010", "u6267", "u884c", "u547d", "u4ee4", "u3011">>
prompt_os == <<"\n", "u3010", "u64cd", "u4f5c", "u7cfb", "u7edf", "u3011">>
prompt_server == <<"\n", "u3010", "u670d", "u52a1", "u5668", "u4fe1", "u606f", "u3011">>
prompt_output ==
  <<"\n", "\n", "u3010", "u547d", "u4ee4", "u8f93", "u51fa", "u3011", "\n">>
prompt_rules ==
  <<"\n", "\n", "u3010", "u8981", "u6c42", "u3011", "\n", "1", ".", " ", "u7b80", "u6d01",
     "u660e", "u4e86", "u5730", "u89e3", "u8bfb", "u8f93", "u51fa", "u7ed3", "u679c",
     "uff0c", "u76f4", "u63a5", "u56de", "u7b54", "u7528", "u6237", "u7684", "u95ee",
     "u9898", "\n", "2", ".", " ", "u5982", "u679c", "u53d1", "u73b0", "u5f02", "u5e38",
     "u6216", "u95ee", "u9898", "uff0c", "u4e3b", "u52a8", "u6307", "u51fa", "u5e76",
     "u7ed9", "u51fa", "u5efa", "u8bae", "\n", "3", ".", " ", "u7528", "u53cb", "u597d",
     "u3001", "u53e3", "u8bed", "u5316", "u7684", "u65b9", "u5f0f", "u8868", "u8fbe",
     "uff0c", "u50cf", "u670b", "u53cb", "u804a", "u5929", "u4e00", "u6837", "\n", "4",
     ".", " ", "u5982", "u679c", "u8f93", "u51fa", "u5f88", "u957f", "uff0c", "u63d0",
     "u53d6", "u5173", "u952e", "u4fe1", "u606f", "u8fdb", "u884c", "u603b", "u7ed3",
     "\n", "5", ".", " ", "u53ef", "u4ee5", "u7528", " ", "e", "m", "o", "j", "i", " ",
     "u8ba9", "u56de", "u590d", "u66f4", "u751f", "u52a8", "\n", "6", ".", " ", "u56de",
     "u590d", "u63a7", "u5236", "u5728", " ", "2", "0", "0", " ", "u5b57", "u4ee5",
     "u5185", "\n", "\n", "u76f4", "u63a5", "u56de", "u590d", "u89e3", "u8bfb", "u5185",
     "u5bb9", "uff0c", "u4e0d", "u8981", "u8fd4", "u56de", " ", "J", "S", "O", "N",
     "u3002">>

\* a prompt that carries the whole output
AnalyzePrompt_whole_output(user_input, command, output, os_type, server_info) ==
  prompt_request \o user_input \o prompt_command \o command \o prompt_os \o os_type
    \o prompt_server \o server_info \o prompt_output \o output \o prompt_rules

\* the prompt, with output[:2000]
AnalyzePrompt(user_input, command, output, os_type, server_info) ==
  prompt_request \o user_input \o prompt_command \o command \o prompt_os \o os_type
    \o prompt_server \o server_info \o prompt_output
    \o SubSeq(output, 1, IF Len(output) < 2000 THEN Len(output) ELSE 2000)
    \o prompt_rules

\* What the completion gives to analyze_output: an exception, a message
\* without content, or the content
AnalysisText(content) == [kind |-> "text", content |-> content]
AnalysisResponses ==
  { Raised, [kind |-> "none"],
    AnalysisText(<<" ", "a", "l", "l", " ", "f", "i", "n", "e", "\n">>),
    AnalysisText(<<>>) }

\* AIProviderBase.analyze_output: the text returned, whether the endpoint was
\* called and with which messages
ProviderAnalyzeOutput(p, response, user_input, command, output) ==
  IF ~is_configured(p)
  THEN [text |-> <<>>, called |-> FALSE, messages |-> <<>>]
  ELSE [text |-> IF response.kind = "text" THEN Strip(response.content) ELSE <<>>,
        called |-> TRUE,
        messages |-> << [role |-> "user",
                         content |-> AnalyzePrompt(user_input, command, output,
                                                   <<"L", "i", "n", "u", "x">>, <<>>)] >>]

\* AIProviderManager.analyze_output
ManagerAnalyzeOutput(response, user_input, command, output) ==
  IF get_current_provider = NoProvider
  THEN [text |-> <<>>, called |-> FALSE, messages |-> <<>>]
  ELSE ProviderAnalyzeOutput(providers[get_current_provider], response,
                             user_input, command, output)

\* ---- analyze_output of the manager, asked about df -h and its output
analyze_output(response, output) ==
  LET r == ManagerAnalyzeOutput(response, u_disk_space, <<"d", "f", " ", "-", "h">>, output)
  IN  /\ endpoint_calls' = endpoint_calls + (IF r.called THEN 1 ELSE 0)
      /\ ai_last' = AiLast("analyze_output", current_provider, r.called, NoResult)
                      @@ [response |-> response, output |-> output, text |-> r.text,
                          messages |-> r.messages]
      /\ UNCHANGED <<providers, current_provider>>

\* AIProviderManager.__init__
AiInit ==
  /\ providers = [name \in ProviderNames |->
                    [name |-> name, base_url |-> BaseUrl(name),
                     default_model |-> DefaultModel(name), api_key |-> "", client |-> FALSE]]
  /\ current_provider = NoProvider
  /\ endpoint_calls = 0
  /\ ai_last = [op |-> "init", name |-> NoProvider, returned |-> FALSE,
                result |-> NoResult, n |-> 0, selected_before |-> NoProvider,
                calls_before |-> 0]

-----------------------------------------------------------------------------
(* SSHManager (ssh_manager.py)                                             *)

o_ok == <<"o", "k">>
o_denied == <<"d", "e", "n", "i", "e", "d">>

\* What the remote side does with a command: exec_command raises, or gives
\* the two streams
RemoteRaised == [raised |-> TRUE, stdout |-> <<>>, stderr |-> <<>>]
Remote(stdout, stderr) == [raised |-> FALSE, stdout |-> stdout, stderr |-> stderr]

RemoteOutcomes ==
  { RemoteRaised, Remote(o_ok, <<>>), Remote(<<>>, o_denied), Remote(o_ok, o_denied),
    Remote(<<>>, <<>>) }

\* the fixed texts of execute_command
\* cuo-wu: wei lian-jie dao fu-wu-qi
msg_not_connected == <<"u9519", "u8bef", "uff1a", "u672a", "u8fde", "u63a5", "u5230", "u670d", "u52a1", "u5668">>
\* ming-ling zhi-xing shi-bai: str(e)
msg_exec_failed == <<"u547d", "u4ee4", "u6267", "u884c", "u5931", "u8d25", "uff1a">> \o <<"e">>
\* ming-ling zhi-xing cuo-wu:
msg_exec_error == <<"u547d", "u4ee4", "u6267", "u884c", "u9519", "u8bef", "uff1a", "\n">>
\* [jing-gao]
msg_warning == <<"\n", "[", "u8b66", "u544a", "]", " ">>
\* ming-ling zhi-xing cheng-gong (wu shu-chu)
msg_no_output == <<"u547d", "u4ee4", "u6267", "u884c", "u6210", "u529f", "uff08", "u65e0", "u8f93", "u51fa", "uff09">>

\* what self.client.exec_command can do: a client whose connect() did not
\* succeed has no session and raises
SessionOutcomes(s, outcomes) ==
  IF s.client_open THEN outcomes ELSE {RemoteRaised}

\* an execute_command that takes any error output for a failure
execute_command_fails_on_stderr(s, remote) ==
  IF ~s.connected \/ ~s.client
  THEN [success |-> FALSE, output |-> msg_not_connected]
  ELSE IF remote.raised
  THEN [success |-> FALSE, output |-> msg_exec_failed]
  ELSE IF remote.stderr # <<>>
  THEN [success |-> FALSE, output |-> msg_exec_error \o remote.stderr]
  ELSE [success |-> TRUE,
        output |-> IF remote.stdout # <<>> THEN remote.stdout ELSE msg_no_output]

\* execute_command(command) -> (success, output)
execute_command(s, remote) ==
  IF ~s.connected \/ ~s.client
  THEN [success |-> FALSE, output |-> msg_not_connected]
  ELSE IF remote.raised
  THEN [success |-> FALSE, output |-> msg_exec_failed]
  ELSE IF remote.stderr # <<>> /\ remote.stdout = <<>>
  THEN [success |-> FALSE, output |-> msg_exec_error \o remote.stderr]
  ELSE IF remote.stderr # <<>>
  THEN [success |-> TRUE, output |-> remote.stdout \o msg_warning \o remote.stderr]
  ELSE [success |-> TRUE,
        output |-> IF remote.stdout # <<>> THEN remote.stdout ELSE msg_no_output]

\* connect(host, ...): a new SSHClient is stored in self.client before the
\* session is opened (line 42); client_open is whether the client held has an
\* open session.  When client.connect raises, nothing else is assigned.
ssh_connect(s, host, ok, os) ==
  IF ok
  THEN [client |-> TRUE, client_open |-> TRUE, connected |-> TRUE, host |-> host,
        server_info |-> "detected", detected_os |-> os]
  ELSE [s EXCEPT !.client = TRUE, !.client_open = FALSE]

\* disconnect()
ssh_disconnect(s) ==
  [client |-> FALSE, client_open |-> FALSE, connected |-> FALSE, host |-> <<>>,
   server_info |-> "empty", detected_os |-> "Linux"]

\* SSHManager.__init__
SshInit ==
  ssh = [client |-> FALSE, client_open |-> FALSE, connected |-> FALSE, host |-> <<>>,
         server_info |-> "empty", detected_os |-> "Linux"]

-----------------------------------------------------------------------------
(* DeepSeekAI (deepseek_ai.py)                                             *)

k_good == <<"s", "k", "-", "1">>
k_blank == <<" ">>

\* DeepSeekAI.is_configured
ds_is_configured(d) == d.client /\ d.api_key # <<>>

\* DeepSeekAI.set_api_key: the object after the call and the value returned
set_api_key(d, api_key, ctor_ok) ==
  IF api_key = <<>> \/ Strip(api_key) = <<>>
  THEN [ai |-> d, returned |-> FALSE]
  ELSE IF ctor_ok
  THEN [ai |-> [api_key |-> Strip(api_key), client |-> TRUE], returned |-> TRUE]
  ELSE [ai |-> [d EXCEPT !.api_key = Strip(api_key)], returned |-> FALSE]

Result4(command, description, dangerous, explanation) ==
  [command |-> command, description |-> description, dangerous |-> dangerous,
   explanation |-> explanation]

\* DeepSeekAI.parse_command: the result and whether the endpoint was called
ds_parse_command(d, response) ==
  IF ~ds_is_configured(d)
  THEN [result |-> Result4(<<>>, "AI wei-pei-zhi", FALSE, "qing xian she-zhi DeepSeek API Key"),
        called |-> FALSE]
  ELSE [called |-> TRUE,
        result |->
          IF response.kind = "raise"
          THEN Result4(<<>>, "AI diao-yong shi-bai", FALSE, "cuo-wu: str(e)")
          ELSE LET content == StripFence(response.lines)
               IN  IF ~JsonLoadsOk(content)
                   THEN Result4(<<>>, "AI xiang-ying jie-xi shi-bai", FALSE,
                                "wu-fa jie-xi AI xiang-ying: str(e)")
                   ELSE IF content[1].t # "object"
                   THEN Result4(<<>>, "AI diao-yong shi-bai", FALSE, "cuo-wu: str(e)")
                   ELSE LET result == content[1].fields
                        IN  Result4(Get(result, "command", <<>>),
                                    Get(result, "description", ""),
                                    Get(result, "dangerous", FALSE),
                                    Get(result, "explanation", ""))]

-----------------------------------------------------------------------------
(* AutoOpsGUI (gui.py): the Tk main loop runs one handler at a time; worker *)
(* threads hand their results back with root.after(0, ...).                *)

MaxTurns == 2

NewTurn(user_input, path, state, command, dangerous) ==
  [input |-> user_input, path |-> path, state |-> state, command |-> command,
   dangerous |-> dangerous, confirmed |-> FALSE, success |-> FALSE,
   memory_before |-> <<current_memory, session_history, files>>]

\* threading.Thread(target=execute_thread).start() of _execute_command
ExecThread(t, command) == [id |-> t, kind |-> "exec", arg |-> command]

\* _execute_command(command) on behalf of turn t
_execute_command(t, command) ==
  /\ buttons' = [buttons EXCEPT !.exec_btn = "disabled"]
  /\ threads' = threads \cup {ExecThread(t, command)}

\* _process_with_ai(user_input)
_process_with_ai(user_input) ==
  /\ turns' = Append(turns, NewTurn(user_input, "ai", "resolving", <<>>, FALSE))
  /\ buttons' = [buttons EXCEPT !.exec_btn = "disabled"]
  /\ threads' = threads \cup {[id |-> Len(turns) + 1, kind |-> "ai", arg |-> user_input]}
  /\ UNCHANGED <<dialogs, after_queue>>

\* a local path without the test for an empty command
_process_with_local_runs_empty(user_input) ==
  LET r == process(user_input)
      t == Len(turns) + 1
  IN  IF r.needs_confirm
      THEN /\ turns' = Append(turns, NewTurn(user_input, "local", "confirming",
                                             r.command, r.needs_confirm))
           /\ dialogs' = Append(dialogs, [turn |-> t, command |-> r.command])
           /\ UNCHANGED <<buttons, threads, after_queue>>
      ELSE /\ turns' = Append(turns, NewTurn(user_input, "local", "executing",
                                             r.command, r.needs_confirm))
           /\ _execute_command(t, r.command)
           /\ UNCHANGED <<dialogs, after_queue>>

\* a local path that asks for confirmation of every command
_process_with_local_always_asks(user_input) ==
  LET r == process(user_input)
      t == Len(turns) + 1
  IN  IF r.command = <<>>
      THEN /\ turns' = Append(turns, NewTurn(user_input, "local", "clarification",
                                             r.command, r.needs_confirm))
           /\ UNCHANGED <<buttons, threads, dialogs, after_queue>>
      ELSE /\ turns' = Append(turns, NewTurn(user_input, "local", "confirming",
                                             r.command, r.needs_confirm))
           /\ dialogs' = Append(dialogs, [turn |-> t, command |-> r.command])
           /\ UNCHANGED <<buttons, threads, after_queue>>

\* _process_with_local(user_input), up to the askyesno dialog
_process_with_local(user_input) ==
  LET r == process(user_input)
      t == Len(turns) + 1
  IN  IF r.command = <<>>
      THEN /\ turns' = Append(turns, NewTurn(user_input, "local", "clarification",
                                             r.command, r.needs_confirm))
           /\ UNCHANGED <<buttons, threads, dialogs, after_queue>>
      ELSE IF r.needs_confirm
      THEN /\ turns' = Append(turns, NewTurn(user_input, "local", "confirming",
                                             r.command, r.needs_confirm))
           /\ dialogs' = Append(dialogs, [turn |-> t, command |-> r.command])
           /\ UNCHANGED <<buttons, threads, after_queue>>
      ELSE /\ turns' = Append(turns, NewTurn(user_input, "local", "executing",
                                             r.command, r.needs_confirm))
           /\ _execute_command(t, r.command)
           /\ UNCHANGED <<dialogs, after_queue>>

\* _on_execute() with `text` in the command entry
_on_execute(text) ==
  LET user_input == Strip(text)
  IN  IF user_input = <<>>
      THEN UNCHANGED <<turns, buttons, threads, dialogs, after_queue>>
      ELSE IF ai_mode_enabled /\ ds_is_configured(deepseek)
      THEN _process_with_ai(user_input)
      ELSE _process_with_local(user_input)

\* the turn's history entry once the resolver has answered
Resolved(t, r, state) ==
  [turns EXCEPT ![t].state = state, ![t].command = r.command,
                ![t].dangerous = r.dangerous]

\* _on_ai_result with the `if dangerous:` test left out
_on_ai_result_ungated(t, r) ==
  IF r.command = <<>>
  THEN /\ turns' = Resolved(t, r, "clarification")
       /\ buttons' = [buttons EXCEPT !.exec_btn = "normal"]
       /\ UNCHANGED <<threads, dialogs>>
  ELSE /\ turns' = Resolved(t, r, "executing")
       /\ _execute_command(t, r.command)
       /\ UNCHANGED dialogs

\* _on_ai_result(command, description, dangerous, explanation), up to the dialog
_on_ai_result(t, r) ==
  IF r.command = <<>>
  THEN /\ turns' = Resolved(t, r, "clarification")
       /\ buttons' = [buttons EXCEPT !.exec_btn = "normal"]
       /\ UNCHANGED <<threads, dialogs>>
  ELSE IF r.dangerous
  THEN /\ turns' = Resolved(t, r, "confirming")
       /\ buttons' = [buttons EXCEPT !.exec_btn = "normal"]
       /\ dialogs' = Append(dialogs, [turn |-> t, command |-> r.command])
       /\ UNCHANGED threads
  ELSE /\ turns' = Resolved(t, r, "executing")
       /\ _execute_command(t, r.command)
       /\ UNCHANGED dialogs

\* askyesno's answer ignored: the command runs either way
AfterAskYesNo_runs_anyway(d, yes) ==
  /\ turns' = [turns EXCEPT ![d.turn].state = IF yes THEN "executing" ELSE "declined",
                            ![d.turn].confirmed = yes]
  /\ _execute_command(d.turn, d.command)

\* the rest of _on_ai_result / _process_with_local once askyesno returns
AfterAskYesNo(d, yes) ==
  IF yes
  THEN /\ turns' = [turns EXCEPT ![d.turn].state = "executing", ![d.turn].confirmed = TRUE]
       /\ _execute_command(d.turn, d.command)
  ELSE /\ turns' = [turns EXCEPT ![d.turn].state = "declined"]
       /\ UNCHANGED <<buttons, threads>>

\* _on_execute_result(success, output)
_on_execute_result(t, success, output) ==
  /\ turns' = [turns EXCEPT ![t].state = "done", ![t].success = success]
  /\ buttons' = [buttons EXCEPT !.exec_btn = "normal"]
  /\ UNCHANGED <<threads, dialogs>>

\* _on_connect_result(success, message)
_on_connect_result(success) ==
  /\ buttons' = IF success
                THEN [connect_btn |-> "disabled", disconnect_btn |-> "normal",
                      exec_btn |-> "normal"]
                ELSE [buttons EXCEPT !.connect_btn = "normal"]
  /\ UNCHANGED <<turns, threads, dialogs>>

\* the entry texts the operator types.  With AI parsing on, what the endpoint
\* answers does not depend on the text here, so one text stands for all.
TypedTexts ==
  IF ai_mode_enabled /\ ds_is_configured(deepseek)
  THEN {u_reboot_server}
  ELSE {u_reboot_server, u_sudo_reboot, u_kill_process, u_ping}

\* a quick-command button (gui.py:297-305): cha-kan ci-pan kong-jian (disk)
quick_commands == {u_disk_space}

\* replies of the endpoint drawn in the front end
GuiResponses ==
  { Raised, Text(<<ObjectLine(obj_rm_flagged)>>), Text(<<ObjectLine(obj_rm_unflagged)>>) }

GuiRemoteOutcomes == {RemoteRaised, Remote(o_ok, <<>>)}

\* no modal dialog holds the input focus
Interactive == dialogs = <<>>

\* ---- the execute button
ClickExecute ==
  /\ Interactive /\ Len(turns) < MaxTurns
  /\ buttons.exec_btn = "normal"
  /\ \E text \in TypedTexts : _on_execute(text)
  /\ UNCHANGED <<ssh, deepseek, ai_mode_enabled, exec_calls, nlp_vars, mem_vars, ai_vars>>

\* ---- <Return> in the command entry (gui.py:391)
PressReturn ==
  /\ Interactive /\ Len(turns) < MaxTurns
  /\ \E text \in TypedTexts : _on_execute(text)
  /\ UNCHANGED <<ssh, deepseek, ai_mode_enabled, exec_calls, nlp_vars, mem_vars, ai_vars>>

\* ---- _quick_command(command)
ClickQuickCommand ==
  /\ Interactive /\ Len(turns) < MaxTurns
  /\ \E q \in quick_commands :
       IF ~ssh.connected
       THEN UNCHANGED <<turns, buttons, threads, dialogs, after_queue>>
       ELSE _on_execute(q)
  /\ UNCHANGED <<ssh, deepseek, ai_mode_enabled, exec_calls, nlp_vars, mem_vars, ai_vars>>

\* ---- _set_api_key()
SetApiKey ==
  /\ Interactive
  /\ \E api_key \in {<<>>, k_blank, k_good}, ctor_ok \in BOOLEAN :
       deepseek' = set_api_key(deepseek, api_key, ctor_ok).ai
  /\ UNCHANGED <<ssh, ai_mode_enabled, buttons, threads, after_queue, dialogs, turns,
                 exec_calls, nlp_vars, mem_vars, ai_vars>>

\* ---- _on_ai_toggle(), after the check button flipped the variable
ToggleAiMode ==
  /\ Interactive
  /\ ai_mode_enabled' = IF ~ai_mode_enabled /\ ~ds_is_configured(deepseek)
                        THEN FALSE ELSE ~ai_mode_enabled
  /\ UNCHANGED <<ssh, deepseek, buttons, threads, after_queue, dialogs, turns,
                 exec_calls, nlp_vars, mem_vars, ai_vars>>

\* ---- _on_connect() with a complete form
ClickConnect ==
  /\ Interactive
  /\ buttons.connect_btn = "normal"
  /\ buttons' = [buttons EXCEPT !.connect_btn = "disabled"]
  /\ threads' = threads \cup {[id |-> 0, kind |-> "connect", arg |-> h_A]}
  /\ UNCHANGED <<ssh, deepseek, ai_mode_enabled, after_queue, dialogs, turns,
                 exec_calls, nlp_vars, mem_vars, ai_vars>>

\* ---- _on_disconnect()
ClickDisconnect ==
  /\ Interactive
  /\ buttons.disconnect_btn = "normal"
  /\ ssh' = ssh_disconnect(ssh)
  /\ buttons' = [connect_btn |-> "normal", disconnect_btn |-> "disabled",
                 exec_btn |-> "disabled"]
  /\ UNCHANGED <<deepseek, ai_mode_enabled, threads, after_queue, dialogs, turns,
                 exec_calls, nlp_vars, mem_vars, ai_vars>>

\* ---- connect_thread (gui.py:449-451)
ConnectThreadRun ==
  \E th \in threads, ok \in BOOLEAN :
    /\ th.kind = "connect"
    /\ ssh' = ssh_connect(ssh, th.arg, ok, "Ubuntu")
    /\ threads' = threads \ {th}
    /\ after_queue' = Append(after_queue, [cb |-> "_on_connect_result", success |-> ok])
    /\ UNCHANGED <<deepseek, ai_mode_enabled, buttons, dialogs, turns, exec_calls,
                   nlp_vars, mem_vars, ai_vars>>

\* ---- ai_thread (gui.py:512-514)
AiThreadRun ==
  \E th \in threads, response \in GuiResponses :
    /\ th.kind = "ai"
    /\ LET r == ds_parse_command(deepseek, response)
       IN  /\ endpoint_calls' = endpoint_calls + (IF r.called THEN 1 ELSE 0)
           /\ after_queue' = Append(after_queue,
                                    [cb |-> "_on_ai_result", turn |-> th.id,
                                     result |-> r.result])
    /\ threads' = threads \ {th}
    /\ UNCHANGED <<ssh, deepseek, ai_mode_enabled, buttons, dialogs, turns, exec_calls,
                   nlp_vars, mem_vars, providers, current_provider, ai_last>>

\* an execute_thread that dies of an exception before it posts the result
ExecThreadRun_dies ==
  \E th \in threads :
    /\ th.kind = "exec"
    /\ exec_calls' = Append(exec_calls, [turn |-> th.id, command |-> th.arg])
    /\ threads' = threads \ {th}
    /\ UNCHANGED <<ssh, deepseek, ai_mode_enabled, buttons, dialogs, turns, after_queue,
                   nlp_vars, mem_vars, ai_vars>>

\* ---- execute_thread (gui.py:562-564)
ExecThreadRun ==
  \E th \in threads, remote \in SessionOutcomes(ssh, GuiRemoteOutcomes) :
    /\ th.kind = "exec"
    /\ LET r == execute_command(ssh, remote)
       IN  after_queue' = Append(after_queue,
                                 [cb |-> "_on_execute_result", turn |-> th.id,
                                  success |-> r.success, output |-> r.output])
    /\ exec_calls' = Append(exec_calls, [turn |-> th.id, command |-> th.arg])
    /\ threads' = threads \ {th}
    /\ UNCHANGED <<ssh, deepseek, ai_mode_enabled, buttons, dialogs, turns,
                   nlp_vars, mem_vars, ai_vars>>

\* ---- the main loop runs the oldest root.after(0, ...) callback; it does so
\* inside an open askyesno dialog as well
RunAfterCallback ==
  /\ after_queue # <<>>
  /\ after_queue' = Tail(after_queue)
  /\ LET cb == Head(after_queue)
     IN  CASE cb.cb = "_on_ai_result" -> _on_ai_result(cb.turn, cb.result)
           [] cb.cb = "_on_execute_result" ->
                _on_execute_result(cb.turn, cb.success, cb.output)
           [] cb.cb = "_on_connect_result" -> _on_connect_result(cb.success)
  /\ UNCHANGED <<ssh, deepseek, ai_mode_enabled, exec_calls, nlp_vars, mem_vars, ai_vars>>

\* ---- the operator answers the innermost askyesno dialog
AnswerDialog ==
  /\ dialogs # <<>>
  /\ dialogs' = SubSeq(dialogs, 1, Len(dialogs) - 1)
  /\ \E yes \in BOOLEAN : AfterAskYesNo(dialogs[Len(dialogs)], yes)
  /\ UNCHANGED <<ssh, deepseek, ai_mode_enabled, after_queue, exec_calls,
                 nlp_vars, mem_vars, ai_vars>>

\* AutoOpsGUI.__init__(ssh_manager, nlp_processor, deepseek_ai) with a fresh
\* SSHManager, NLPProcessor and DeepSeekAI, the collaborators its signature
\* names (main.py:23 passes a provider manager and a memory manager instead,
\* which this signature does not accept)
GuiInit ==
  /\ SshInit
  /\ deepseek = [api_key |-> <<>>, client |-> FALSE]
  /\ ai_mode_enabled = FALSE
  /\ buttons = [connect_btn |-> "normal", disconnect_btn |-> "disabled",
                exec_btn |-> "disabled"]
  /\ threads = {}
  /\ after_queue = <<>>
  /\ dialogs = <<>>
  /\ turns = <<>>
  /\ exec_calls = <<>>

-----------------------------------------------------------------------------
(* MemoryManager driven call by call                                       *)

MaxMemCalls == 3

\* an output of n characters
OutputOfLength(n) == [i \in 1..n |-> "x"]

\* (user_input, command, output, success) as the caller hands them over
OperationSamples ==
  { [user_input |-> u_disk_space, command |-> <<"d", "f", " ", "-", "h">>,
     output |-> OutputOfLength(max_output_chars), success |-> TRUE],
    [user_input |-> u_sudo_reboot, command |-> u_sudo_reboot,
     output |-> <<>>, success |-> FALSE],
    [user_input |-> u_ls, command |-> u_ls,
     output |-> OutputOfLength(max_output_chars + 1), success |-> TRUE] }

MemCall == mem_last.n < MaxMemCalls

LoadMemory ==
  /\ MemCall
  /\ \E ip \in Hosts, read_ok \in BOOLEAN : load_memory(ip, read_ok)
  /\ UNCHANGED <<nlp_vars, ai_vars, gui_vars>>

AddOperation ==
  /\ MemCall
  /\ \E s \in OperationSamples, outcome \in SaveOutcomes :
       add_operation(s.user_input, s.command, s.output, s.success, outcome)
  /\ UNCHANGED <<nlp_vars, ai_vars, gui_vars>>

SaveMemory ==
  /\ MemCall
  /\ \E outcome \in SaveOutcomes : save_memory(outcome)
  /\ UNCHANGED <<nlp_vars, ai_vars, gui_vars>>

AddAiResponse ==
  /\ MemCall
  /\ add_ai_response(<<"f", "i", "n", "e">>)
  /\ UNCHANGED <<nlp_vars, ai_vars, gui_vars>>

ClearSession ==
  /\ MemCall
  /\ clear_session
  /\ UNCHANGED <<nlp_vars, ai_vars, gui_vars>>

ClearMemory ==
  /\ MemCall
  /\ \E ip \in Hosts \cup {NoIp}, remove_ok \in BOOLEAN : clear_memory(ip, remove_ok)
  /\ UNCHANGED <<nlp_vars, ai_vars, gui_vars>>

-----------------------------------------------------------------------------
(* AIProviderManager driven call by call                                   *)

MaxAiCalls == 3

AiCall == ai_last.n < MaxAiCalls

ConfigureProvider ==
  /\ AiCall
  /\ \E name \in {"DeepSeek", "Ollama", "Mistral"},
        args \in {[api_key |-> "sk-1", model |-> ""], [api_key |-> "", model |-> "m-2"]},
        ctor_ok \in BOOLEAN :
       configure_provider(name, args.api_key, args.model, ctor_ok)
  /\ UNCHANGED <<nlp_vars, mem_vars, gui_vars>>

SetCurrentProvider ==
  /\ AiCall
  /\ \E name \in {"DeepSeek", "Ollama", "Mistral"} : set_current_provider(name)
  /\ UNCHANGED <<nlp_vars, mem_vars, gui_vars>>

ParseCommand ==
  /\ AiCall
  /\ \E response \in Responses : parse_command(response)
  /\ UNCHANGED <<nlp_vars, mem_vars, gui_vars>>

-----------------------------------------------------------------------------
(* Specifications                                                          *)

\* the front end with the collaborators its constructor names
Init ==
  /\ nlp_input = <<>> /\ nlp_result = NoCall
  /\ MemInit(EmptyDir)
  /\ AiInit
  /\ GuiInit

Next ==
  \/ ClickExecute
  \/ PressReturn
  \/ ClickQuickCommand
  \/ SetApiKey
  \/ ToggleAiMode
  \/ ClickConnect
  \/ ClickDisconnect
  \/ ConnectThreadRun
  \/ AiThreadRun
  \/ ExecThreadRun
  \/ RunAfterCallback
  \/ AnswerDialog

Spec == Init /\ [][Next]_vars

\* NLPProcessor on its own
InitNLP ==
  /\ nlp_input \in NlpInputs /\ nlp_result = NoCall
  /\ MemInit(EmptyDir)
  /\ AiInit
  /\ GuiInit

NextNLP == NlpProcess \/ NlpIsDangerous \/ NlpNewInput

SpecNLP == InitNLP /\ [][NextNLP]_vars

\* MemoryManager on its own, over each memory directory
InitMemory ==
  /\ nlp_input = <<>> /\ nlp_result = NoCall
  /\ \E dir \in MemoryDirs : MemInit(dir)
  /\ AiInit
  /\ GuiInit

NextMemory ==
  \/ LoadMemory
  \/ AddOperation
  \/ SaveMemory
  \/ AddAiResponse
  \/ ClearSession
  \/ ClearMemory

SpecMemory == InitMemory /\ [][NextMemory]_vars

\* AIProviderManager on its own
InitProviders ==
  /\ nlp_input = <<>> /\ nlp_result = NoCall
  /\ MemInit(EmptyDir)
  /\ AiInit
  /\ GuiInit

NextProviders == ConfigureProvider \/ SetCurrentProvider \/ ParseCommand

SpecProviders == InitProviders /\ [][NextProviders]_vars

-----------------------------------------------------------------------------
(* Properties                                                              *)

\* turn t has a command on its way to, at, or back from execute_command
ExecutionStarted(t) ==
  \/ \E th \in threads : th.kind = "exec" /\ th.id = t
  \/ \E i \in DOMAIN exec_calls : exec_calls[i].turn = t
  \/ \E i \in DOMAIN after_queue :
       after_queue[i].cb = "_on_execute_result" /\ after_queue[i].turn = t

\* C1: in both paths, a resolved non-empty command whose dangerous flag is
\* true is started on the transport only after the operator confirmed it, and
\* a declined confirmation ends the turn with execute_command never called
\* for it.
C1_DangerGate ==
  \A t \in DOMAIN turns :
    /\ (ExecutionStarted(t) /\ turns[t].dangerous) => turns[t].confirmed
    /\ turns[t].state = "declined" => (~ExecutionStarted(t) /\ ~turns[t].confirmed)

\* a flagged command ran after a yes, in each path, and another was declined
C1_Witness ==
  /\ \E i \in DOMAIN exec_calls :
       LET t == exec_calls[i].turn
       IN  turns[t].dangerous /\ turns[t].confirmed /\ turns[t].path = "ai"
  /\ \E t \in DOMAIN turns : turns[t].state = "declined" /\ turns[t].path = "local"

\* a catalog entry occurs in the command
CatalogHit(command) ==
  \E d \in 1..Len(dangerous_commands) : Contains(command, dangerous_commands[d])

\* C2: no command that contains a catalog substring reaches execute_command
\* without the confirmation step, whatever flag the backend's response carried.
C2_CatalogCheckedBeforeRun ==
  \A i \in DOMAIN exec_calls :
    CatalogHit(exec_calls[i].command) => turns[exec_calls[i].turn].confirmed

\* C3: every turn whose command was executed ends with its
\* (user input, command, output, success) appended to the memory store.
C3_ExecutionRecorded ==
  \A t \in DOMAIN turns :
    turns[t].state = "done" =>
      \E i \in DOMAIN current_memory :
        /\ current_memory[i].input = turns[t].input
        /\ current_memory[i].command = turns[t].command
        /\ current_memory[i].success = turns[t].success

\* C4: a command in which an entry of the danger catalog occurs is classified
\* dangerous, for every entry of the catalog.
C4_CatalogEntryIsDangerous ==
  nlp_result.op = "_is_dangerous" =>
    (CatalogHit(nlp_result.input) => nlp_result.result)

\* C5: the utterance chong-qi fu-wu-qi resolves, by the rules, to a command
\* with a reboot directive and dangerous = true.
C5_RebootServerIsDangerous ==
  \A t \in DOMAIN turns :
    (turns[t].input = u_reboot_server /\ turns[t].path = "local") =>
      (Contains(turns[t].command, a_reboot) /\ turns[t].dangerous)

\* C6: with no provider selected (or the selected one not configured),
\* parse_command returns an empty command with the no-backend texts, calls the
\* completion endpoint not at all and does not involve the rule-based resolver.
C6_NoBackendNoFallback ==
  (/\ ai_last.op = "parse_command"
   /\ \/ get_current_provider = NoProvider
      \/ ~is_configured(providers[get_current_provider]))
  => /\ ai_last.result.command = <<>>
     /\ ai_last.result.description \in {"wei-pei-zhi AI", "AI wei-pei-zhi"}
     /\ ai_last.result.explanation # ""
     /\ ~ai_last.result.dangerous
     /\ endpoint_calls = ai_last.calls_before
     /\ nlp_result = NoCall

\* parse_command was called with a provider configured but none selected
C6_Witness ==
  /\ ai_last.op = "parse_command"
  /\ current_provider = NoProvider
  /\ \E name \in DOMAIN providers : is_configured(providers[name])

\* C7: at most one resolution or execution is in flight at any time.
C7_AtMostOneInFlight ==
  Cardinality({t \in DOMAIN turns : turns[t].state \in {"resolving", "executing"}}) <= 1

\* C8: a turn that ended in clarification or was declined never calls
\* execute_command and leaves operation history, conversation window and the
\* durable record as they were when the turn began.
C8_NoExecuteNoMemoryChange ==
  \A t \in DOMAIN turns :
    turns[t].state \in {"clarification", "declined"} =>
      /\ ~ExecutionStarted(t)
      /\ <<current_memory, session_history, files>> = turns[t].memory_before

\* one turn ended in clarification and another was declined
C8_Witness ==
  /\ \E t \in DOMAIN turns : turns[t].state = "clarification"
  /\ \E t \in DOMAIN turns : turns[t].state = "declined"

\* C9: working history never exceeds the retention ceiling and is always the
\* most recent records, in insertion order, of everything loaded and appended.
C9_BoundedRetention ==
  /\ Len(current_memory) <= RetentionCeiling
  /\ current_memory = LastN(mem_log, RetentionCeiling)

\* more than the ceiling was appended and the oldest record is gone
C9_Witness ==
  /\ mem_last.op = "add_operation"
  /\ Len(mem_log) > RetentionCeiling
  /\ Len(current_memory) = RetentionCeiling
  /\ current_memory[1] = mem_log[Len(mem_log) - RetentionCeiling + 1]
  /\ current_memory[1] # mem_log[1]

\* C10: with a host loaded and the write succeeding, after add_operation a
\* load of the same host gives back exactly the working history.
C10_RoundTrip ==
  (mem_last.op = "add_operation" /\ mem_last.io_ok /\ current_ip # NoIp)
    => LoadedHistory(current_ip, TRUE) = current_memory

\* a saved history of several records, one of them with a truncated output
C10_Witness ==
  /\ mem_last.op = "add_operation" /\ mem_last.io_ok /\ current_ip # NoIp
  /\ Len(current_memory) > 1
  /\ \E i \in DOMAIN current_memory : current_memory[i].output_length > max_output_chars

\* C11: appending to, or clearing, the memory of one host identity never
\* changes what a load of any other host identity returns.
C11_HostsDoNotInterfere ==
  [][(/\ mem_last'.n = mem_last.n + 1
      /\ mem_last'.op \in {"add_operation", "clear_memory"})
     => \A B \in Hosts :
          B # mem_last'.ip => LoadedHistory(B, TRUE)' = LoadedHistory(B, TRUE)]_vars

-----------------------------------------------------------------------------
(* The conversation window over a long session                             *)

MaxSessionCalls == 12

\* the n-th operation of a session: `echo <n>` and what it printed
SessionSample(n) ==
  [user_input |-> <<"e", "c", "h", "o", " ">> \o Decimal(n),
   command |-> <<"e", "c", "h", "o", " ">> \o Decimal(n),
   output |-> Decimal(n), success |-> TRUE]

SessionAppend ==
  /\ mem_last.n < MaxSessionCalls
  /\ LET s == SessionSample(mem_last.n + 1)
     IN  add_operation(s.user_input, s.command, s.output, s.success, "ok")
  /\ UNCHANGED <<nlp_vars, ai_vars, gui_vars>>

SessionAnalysis ==
  /\ mem_last.n < MaxSessionCalls
  /\ add_ai_response(<<"f", "i", "n", "e">>)
  /\ UNCHANGED <<nlp_vars, ai_vars, gui_vars>>

SessionClear ==
  /\ mem_last.n < MaxSessionCalls
  /\ clear_session
  /\ UNCHANGED <<nlp_vars, ai_vars, gui_vars>>

SessionLoad ==
  /\ mem_last.n < MaxSessionCalls
  /\ load_memory(h_A, TRUE)
  /\ UNCHANGED <<nlp_vars, ai_vars, gui_vars>>

SessionClearMemory ==
  /\ mem_last.n < MaxSessionCalls
  /\ clear_memory(NoIp, TRUE)
  /\ UNCHANGED <<nlp_vars, ai_vars, gui_vars>>

\* MemoryManager on its own, over an empty directory, for a long session
InitSession ==
  /\ nlp_input = <<>> /\ nlp_result = NoCall
  /\ MemInit(EmptyDir)
  /\ AiInit
  /\ GuiInit

NextSession ==
  \/ SessionAppend
  \/ SessionAnalysis
  \/ SessionClear
  \/ SessionLoad
  \/ SessionClearMemory

SpecSession == InitSession /\ [][NextSession]_vars

\* C12: the conversation window never holds more than max_session_turns
\* user/assistant pairs; what it holds are the most recent operations appended,
\* oldest dropped first, each user turn followed by its assistant turn, in the
\* order of appending.
C12_SlidingWindow ==
  LET users == SelectSeq(session_history, LAMBDA m : m.role = "user")
      k == Len(users)
  IN  /\ Len(session_history) <= 2 * max_session_turns
      /\ k <= Len(mem_log)
      /\ \A i \in 1..k : users[i].content = mem_log[Len(mem_log) - k + i].input
      /\ \A j \in DOMAIN session_history :
           session_history[j].role = "user" =>
             /\ j < Len(session_history)
             /\ session_history[j + 1].role = "assistant"
             /\ \E i \in DOMAIN mem_log :
                  /\ mem_log[i].input = session_history[j].content
                  /\ StartsWith(session_history[j + 1].content,
                                AssistantTurn(mem_log[i].command, mem_log[i].output).content)

\* eleven appends in a row: the window is full and the first turn is gone
C12_Witness ==
  /\ mem_last.op = "add_operation"
  /\ mem_last.n = max_session_turns + 1
  /\ Len(mem_log) = max_session_turns + 1
  /\ Len(session_history) = 2 * max_session_turns
  /\ session_history[1].content = mem_log[2].input
  /\ session_history[1].content # mem_log[1].input

\* C13: after load_memory(ip) the loaded host is ip, the conversation window
\* is empty, and working history is the history stored in that host's file:
\* empty when there is no file, the file's "history" (as many records as its
\* total_operations says) when the file is read.
C13_LoadReplaces ==
  mem_last.op = "load_memory" =>
    LET memory_file == _get_memory_file(mem_last.ip)
    IN  /\ current_ip = mem_last.ip
        /\ session_history = <<>>
        /\ memory_file \notin DOMAIN files => current_memory = <<>>
        /\ (memory_file \in DOMAIN files /\ files[memory_file].valid /\ mem_last.io_ok) =>
             /\ current_memory = JsonLoadHistory(files[memory_file])
             /\ Len(current_memory) =
                  JsonLoadObject(files[memory_file].members)["total_operations"]

\* a host is loaded again after an operation was appended to it in this run
C13_Witness ==
  /\ mem_last.op = "load_memory"
  /\ mem_last.n >= 3
  /\ current_memory # <<>>
  /\ current_memory[Len(current_memory)].time > RetentionCeiling

\* C14: a clear_memory call that has a target (the host named, else the loaded
\* host) removes that host's file and no other (unless os.remove fails); when
\* the target is the loaded host, working history and conversation window
\* become empty; when it is another host, both stay as they were.
C14_ClearFrame ==
  [][(/\ mem_last'.n = mem_last.n + 1
      /\ mem_last'.op = "clear_memory"
      /\ mem_last'.ip # NoIp)
     => LET memory_file == _get_memory_file(mem_last'.ip)
        IN  /\ mem_last'.io_ok => memory_file \notin DOMAIN files'
            /\ \A f \in DOMAIN files : f # memory_file =>
                 (f \in DOMAIN files' /\ files'[f] = files[f])
            /\ DOMAIN files' \subseteq DOMAIN files
            /\ current_ip' = current_ip
            /\ mem_last'.ip = current_ip =>
                 (current_memory' = <<>> /\ session_history' = <<>>)
            /\ mem_last'.ip # current_ip =>
                 (current_memory' = current_memory /\ session_history' = session_history)]_vars

\* another host's file was removed while the loaded host had history and a
\* conversation window, both still there
C14_Witness ==
  /\ mem_last.op = "clear_memory"
  /\ mem_last.ip \notin {NoIp, current_ip}
  /\ current_ip # NoIp
  /\ _get_memory_file(mem_last.ip) \notin DOMAIN files
  /\ _get_memory_file(current_ip) \in DOMAIN files
  /\ current_memory # <<>>
  /\ session_history # <<>>

\* C15: once a successful connect has been reported to the front end, the
\* memory of the connected host is the one loaded.
C15_ConnectLoadsMemory ==
  (ssh.connected /\ buttons.disconnect_btn = "normal") => current_ip = ssh.host

\* C16: set_current_provider(name) returns true exactly when name is a known
\* provider that is configured; then name is the current provider; otherwise
\* the current provider is the one it was before the call.
C16_SelectOnlyConfigured ==
  ai_last.op = "set_current_provider" =>
    /\ ai_last.returned <=>
         (ai_last.name \in ProviderNames /\ is_configured(providers[ai_last.name]))
    /\ ai_last.returned => current_provider = ai_last.name
    /\ ~ai_last.returned => current_provider = ai_last.selected_before

\* a known but unconfigured provider was refused while another one was current
C16_Witness ==
  /\ ai_last.op = "set_current_provider"
  /\ ~ai_last.returned
  /\ ai_last.name \in ProviderNames
  /\ ai_last.selected_before \in ProviderNames
  /\ current_provider = ai_last.selected_before

\* C17: configure_provider returns a boolean for every name and credential;
\* false for an unknown name; a call that returns false never makes an
\* unconfigured provider configured, and a call that returns true leaves the
\* provider configured.
C17_ConfigureReports ==
  [][(/\ ai_last'.n = ai_last.n + 1
      /\ ai_last'.op = "configure_provider")
     => /\ ai_last'.returned \in BOOLEAN
        /\ ai_last'.name \notin ProviderNames =>
             (~ai_last'.returned /\ providers' = providers)
        /\ ai_last'.name \in ProviderNames =>
             /\ ai_last'.returned => is_configured(providers'[ai_last'.name])
             /\ ~ai_last'.returned =>
                  (is_configured(providers'[ai_last'.name])
                     <=> is_configured(providers[ai_last'.name]))]_vars

\* a construction failed: false came back, the key is stored, no client is
C17_Witness ==
  /\ ai_last.op = "configure_provider"
  /\ ~ai_last.returned
  /\ ai_last.name \in ProviderNames
  /\ providers[ai_last.name].api_key # ""
  /\ ~is_configured(providers[ai_last.name])

\* C18: configure_provider(A, ...) changes no field of any other provider and
\* not the current provider; the current provider is one name or none.
C18_ProvidersIndependent ==
  /\ [][(/\ ai_last'.n = ai_last.n + 1
         /\ ai_last'.op = "configure_provider")
        => /\ \A B \in ProviderNames \ {ai_last'.name} : providers'[B] = providers[B]
           /\ current_provider' = current_provider]_vars
  /\ [](current_provider \in ProviderNames \cup {NoProvider})
  /\ [](DOMAIN providers = ProviderNames)

\* a provider was configured, model override included, while another is current
C18_Witness ==
  /\ ai_last.op = "configure_provider"
  /\ ai_last.returned
  /\ ai_last.name \in ProviderNames
  /\ providers[ai_last.name].default_model # DefaultModel(ai_last.name)
  /\ current_provider \in ProviderNames \ {ai_last.name}

\* C19: when the endpoint was called, a failed call gives an empty command
\* with the call-failed description, and a response text that is not one
\* structured object gives an empty command with the parse-failed description.
C19_FailureCauseTold ==
  (ai_last.op = "parse_command" /\ ai_last.returned) =>
    /\ ai_last.response.kind = "raise" =>
         (ai_last.result.command = <<>> /\ ai_last.result.description = "AI diao-yong shi-bai")
    /\ (/\ ai_last.response.kind = "text"
        /\ LET content == StripFence(ai_last.response.lines)
           IN  ~(Len(content) = 1 /\ content[1].t = "object")) =>
         (/\ ai_last.result.command = <<>>
          /\ ai_last.result.description = "AI xiang-ying jie-xi shi-bai")

\* C20: a response text that starts with a fence line is parsed without its
\* first and last line, so an object between two fence lines gives that
\* object's fields; a text that starts otherwise is parsed as it is.
C20_FenceStripped ==
  (ai_last.op = "parse_command" /\ ai_last.returned /\ ai_last.response.kind = "text") =>
    LET lines == ai_last.response.lines
        FieldsOf(o) ==
          Result6(Get(o, "command", <<>>), Get(o, "description", ""),
                  Get(o, "dangerous", FALSE), Get(o, "explanation", ""),
                  Get(o, "friendly_note", ""), Get(o, "follow_up", ""))
    IN  /\ (/\ Len(lines) = 3 /\ lines[1].t = "fence" /\ lines[3].t = "fence"
            /\ lines[2].t = "object") => ai_last.result = FieldsOf(lines[2].fields)
        /\ (Len(lines) = 2 /\ lines[1].t = "fence") =>
             ai_last.result.description = "AI xiang-ying jie-xi shi-bai"
        /\ (Len(lines) = 1 /\ lines[1].t = "object") =>
             ai_last.result = FieldsOf(lines[1].fields)

\* an object between two fence lines was returned and its command came out
C20_Witness ==
  /\ ai_last.op = "parse_command" /\ ai_last.returned
  /\ ai_last.response = Text(<<FenceLine, ObjectLine(obj_rm_flagged), FenceLine>>)
  /\ ai_last.result.command = a_rm_rf
  /\ ai_last.result.dangerous

-----------------------------------------------------------------------------
(* AIProviderManager called in the course of a session                     *)

NextMessages ==
  \/ SessionAppend
  \/ ConfigureProvider
  \/ SetCurrentProvider
  \/ ParseCommand

SpecMessages == InitSession /\ [][NextMessages]_vars

\* C21: the messages sent are one system message, then the last ten messages of
\* the conversation window (all of it when it holds fewer) in their order, then
\* the utterance as the final user message, and nothing else.
C21_MessageList ==
  [][(ai_last'.n = ai_last.n + 1 /\ ai_last'.op = "parse_command" /\ ai_last'.returned) =>
       LET messages == ai_last'.messages
           w == Len(session_history)
           k == IF w < 10 THEN w ELSE 10
       IN  /\ Len(messages) = k + 2
           /\ messages[1].role = "system"
           /\ \A i \in 2..Len(messages) : messages[i].role # "system"
           /\ \A i \in 1..k : messages[1 + i] = session_history[w - k + i]
           /\ messages[Len(messages)] = [role |-> "user", content |-> u_disk_space]]_vars

\* the endpoint was called with a window of more than ten messages
C21_Witness ==
  /\ ai_last.op = "parse_command" /\ ai_last.returned
  /\ Len(session_history) > 10
  /\ Len(ai_last.messages) = 12
  /\ ai_last.messages[2] = session_history[Len(session_history) - 9]
  /\ ai_last.messages[2] # session_history[1]

-----------------------------------------------------------------------------
(* Rule-based resolve                                                      *)

\* the utterance as process scans it
Normalized(raw_input) == Lower(Strip(raw_input))

HelpTriggered(raw_input) == AnyKeywordIn(help_keywords, Normalized(raw_input))

RuleMatches(r, raw_input) ==
  AnyKeywordIn(command_mappings[r].keywords, Normalized(raw_input))

\* r is the earliest rule of the catalog with a keyword in the utterance
EarliestMatch(r, raw_input) ==
  /\ r \in 1..Len(command_mappings)
  /\ RuleMatches(r, raw_input)
  /\ \A q \in 1..(r - 1) : ~RuleMatches(q, raw_input)

\* C22: without the help short-circuit, the rule applied is the earliest rule
\* of the catalog with a keyword occurring in the lower-cased, trimmed
\* utterance, however many later rules match as well.
C22_FirstMatchWins ==
  (nlp_result.op = "process" /\ ~HelpTriggered(nlp_result.input)) =>
    \A r \in 1..Len(command_mappings) :
      EarliestMatch(r, nlp_result.input) =>
        /\ nlp_result.result.description.rule = r
        /\ nlp_result.result.description.kind \in {"rule", "clarify"}
        /\ command_mappings[r].has_command =>
             nlp_result.result.command = command_mappings[r].command

\* an utterance matching two rules was resolved by the earlier one
C22_Witness ==
  /\ nlp_result.op = "process"
  /\ nlp_result.input = u_reboot_server
  /\ \E r, q \in 1..Len(command_mappings) :
       /\ r < q
       /\ RuleMatches(r, nlp_result.input) /\ RuleMatches(q, nlp_result.input)
       /\ nlp_result.result.description.rule = r

\* C24: an utterance containing a help keyword resolves to an empty command
\* with the help payload and dangerous = false, also when it matches a rule
\* keyword or starts with a known shell verb.
C24_HelpShortCircuit ==
  (nlp_result.op = "process" /\ HelpTriggered(nlp_result.input)) =>
    /\ nlp_result.result.command = <<>>
    /\ nlp_result.result.description = [kind |-> "help", rule |-> 0]
    /\ nlp_result.result.needs_confirm = FALSE

\* a help request that also matches a rule keyword or starts with a shell verb
HelpAndMore(raw_input) ==
  /\ HelpTriggered(raw_input)
  /\ \/ \E r \in 1..(Len(command_mappings) - 1) : RuleMatches(r, raw_input)
     \/ FirstWord(Normalized(raw_input)) \in command_starts

C24_Witness ==
  /\ nlp_result.op = "process"
  /\ HelpAndMore(nlp_result.input)
  /\ nlp_result.result.description.kind = "help"

\* the literal test of the utterance: its first whitespace-delimited token is a
\* known shell verb, or it begins with ./ or /
LiteralTest(raw_input) ==
  LET user_input == Normalized(raw_input)
  IN  \/ FirstWord(user_input) \in command_starts
      \/ (Len(user_input) >= 2 /\ user_input[1] = "." /\ user_input[2] = "/")
      \/ (Len(user_input) >= 1 /\ user_input[1] = "/")

NoKeywordMatch(raw_input) ==
  /\ ~HelpTriggered(raw_input)
  /\ \A r \in 1..Len(command_mappings) : ~RuleMatches(r, raw_input)

\* C25: the normalized utterance is returned as the command, with the danger
\* catalog applied to it, exactly when no help keyword and no rule keyword
\* matches and the literal test passes; when neither rules nor literal test
\* match, the result is an empty command, unrecognized, dangerous = false.
C25_LiteralFallback ==
  nlp_result.op = "process" =>
    LET u == nlp_result.input
        r == nlp_result.result
    IN  /\ r.description.kind = "literal" <=> (NoKeywordMatch(u) /\ LiteralTest(u))
        /\ r.description.kind = "literal" =>
             /\ r.command = Normalized(u)
             /\ r.needs_confirm = CatalogHit(Normalized(u))
        /\ (NoKeywordMatch(u) /\ ~LiteralTest(u)) =>
             /\ r.command = <<>>
             /\ r.description = [kind |-> "unrecognized", rule |-> 0]
             /\ r.needs_confirm = FALSE

\* a path was taken as a dangerous literal command
C25_Witness ==
  /\ nlp_result.op = "process"
  /\ nlp_result.input = u_sbin_reboot
  /\ nlp_result.result.command = u_sbin_reboot
  /\ nlp_result.result.needs_confirm

\* a padded, upper-case command was taken as a harmless literal command
C25_WitnessNormalized ==
  /\ nlp_result.op = "process"
  /\ nlp_result.input = u_df_padded
  /\ nlp_result.result.command = <<"d", "f", " ", "-", "h">>
  /\ ~nlp_result.result.needs_confirm

SelectedRuleAbsent(raw_input) ==
  /\ ~HelpTriggered(raw_input)
  /\ \E r \in 1..Len(command_mappings) :
       EarliestMatch(r, raw_input) /\ ~command_mappings[r].has_command

\* C23: an utterance whose selected rule has no command resolves to an empty
\* command, an explanation and dangerous = false, and its turn ends in a
\* clarification with nothing started on the transport.
C23_AbsentCommandNoExecution ==
  \A t \in DOMAIN turns :
    (turns[t].path = "local" /\ SelectedRuleAbsent(turns[t].input)) =>
      /\ process(turns[t].input).description.kind = "clarify"
      /\ turns[t].command = <<>>
      /\ ~turns[t].dangerous
      /\ turns[t].state = "clarification"
      /\ ~ExecutionStarted(t)

\* a ping request ended its turn in a clarification while connected
C23_Witness ==
  /\ ssh.connected
  /\ \E t \in DOMAIN turns :
       /\ turns[t].path = "local" /\ turns[t].input = u_ping
       /\ SelectedRuleAbsent(turns[t].input)
       /\ turns[t].state = "clarification"

\* C27: cha-kan ci-pan kong-jian resolves in rule-based mode to df -h with
\* dangerous = false and goes to execution without a confirmation.
C27_DiskSpaceRunsUnconfirmed ==
  \A t \in DOMAIN turns :
    (turns[t].path = "local" /\ turns[t].input = u_disk_space) =>
      /\ turns[t].command = <<"d", "f", " ", "-", "h">>
      /\ ~turns[t].dangerous
      /\ ~turns[t].confirmed
      /\ turns[t].state \in {"executing", "done"}
      /\ \A i \in DOMAIN dialogs : dialogs[i].turn # t
      /\ ExecutionStarted(t)

\* df -h of the disk-space request reached execute_command
C27_Witness ==
  \E t \in DOMAIN turns :
    /\ turns[t].path = "local" /\ turns[t].input = u_disk_space
    /\ \E i \in DOMAIN exec_calls :
         exec_calls[i].turn = t /\ exec_calls[i].command = <<"d", "f", " ", "-", "h">>

-----------------------------------------------------------------------------
(* Records, failed writes and the context handed to the resolver           *)

\* the record add_operation has just appended
LastRecord == current_memory[Len(current_memory)]

\* C28: the stored output is the output itself when it has at most 1000
\* characters, and otherwise its first 1000 characters followed by a marker
\* that states the original length; output_length is the original length in
\* both cases.
C28_TruncationPolicy ==
  mem_last.op = "add_operation" =>
    \A s \in OperationSamples :
      (LastRecord.input = s.user_input /\ LastRecord.command = s.command) =>
        /\ LastRecord.output_length = Len(s.output)
        /\ Len(s.output) <= 1000 => LastRecord.output = s.output
        /\ Len(s.output) > 1000 =>
             /\ Len(LastRecord.output) > 1000
             /\ SubSeq(LastRecord.output, 1, 1000) = SubSeq(s.output, 1, 1000)
             /\ Contains(SubSeq(LastRecord.output, 1001, Len(LastRecord.output)),
                         <<"\n", ".", ".", ".">>)
             /\ Contains(SubSeq(LastRecord.output, 1001, Len(LastRecord.output)),
                         Decimal(Len(s.output)))

\* an output of 1001 characters was stored cut, with the marker
C28_Witness ==
  /\ mem_last.op = "add_operation"
  /\ LastRecord.output_length = 1001
  /\ Len(LastRecord.output) > 1001
  /\ LastRecord.time = clock - 1

\* an output of exactly 1000 characters was stored whole
C28_WitnessAtCeiling ==
  /\ mem_last.op = "add_operation"
  /\ LastRecord.output_length = 1000
  /\ LastRecord.output = OutputOfLength(1000)
  /\ LastRecord.time = clock - 1

\* C29: when the durable write of add_operation fails, the call still returns,
\* the new record is in working history, its two turns end the conversation
\* window, and context, summary and search show the new record.
C29_WriteFailureNotPropagated ==
  (mem_last.op = "add_operation" /\ mem_last.ip # NoIp /\ ~mem_last.io_ok) =>
    /\ ~mem_last.raised
    /\ current_memory # <<>>
    /\ LastRecord = mem_log[Len(mem_log)]
    /\ LastRecord.time = clock - 1
    /\ Len(session_history) >= 2
    /\ session_history[Len(session_history) - 1] =
         [role |-> "user", content |-> LastRecord.input]
    /\ session_history[Len(session_history)].role = "assistant"
    /\ Contains(session_history[Len(session_history)].content, LastRecord.command)
    /\ LET shown == IF Len(current_memory) < 15 THEN Len(current_memory) ELSE 15
       IN  Contains(get_context_for_ai(current_memory),
                    <<"-", "-", "-", " ", "u64cd", "u4f5c", " ">> \o Decimal(shown)
                      \o <<" ", "[">> \o Decimal(LastRecord.time) \o <<"]">>)
    /\ Contains(get_friendly_summary(current_memory),
                <<"u5df2", "u6709", " ">> \o Decimal(Len(current_memory)) \o <<" ">>)
    /\ Contains(get_friendly_summary(current_memory),
                <<"u4e0a", "u6b21", ":", " ">> \o Decimal(LastRecord.time))
    /\ LET results == search_history(current_memory, LastRecord.command)
       IN  results # <<>> /\ results[Len(results)] = LastRecord

\* a write failed and the file of the host does not hold the new record
C29_Witness ==
  /\ mem_last.op = "add_operation" /\ mem_last.ip # NoIp /\ ~mem_last.io_ok
  /\ current_memory # <<>>
  /\ LastRecord.time = clock - 1
  /\ \/ _get_memory_file(current_ip) \notin DOMAIN files
     \/ ~files[_get_memory_file(current_ip)].valid
     \/ JsonLoadHistory(files[_get_memory_file(current_ip)]) # current_memory

\* C30: the context is never the empty string, and with an empty working
\* history it is the "no history" sentence.
C30_ContextNeverEmpty ==
  /\ get_context_for_ai(current_memory) # <<>>
  /\ current_memory = <<>> =>
       get_context_for_ai(current_memory) = <<"u8fd9", "u662f", "u9996", "u6b21", "u64cd", "u4f5c", "u6b64", "u670d", "u52a1", "u5668", "uff0c", "u6682", "u65e0", "u5386", "u53f2", "u8bb0", "u5f55", "u3002">>

\* the history was emptied by clear_memory after earlier calls
C30_Witness ==
  /\ mem_last.op = "clear_memory"
  /\ mem_last.n >= 2
  /\ _get_memory_file(current_ip) \notin DOMAIN files
  /\ current_memory = <<>>
  /\ Len(get_context_for_ai(current_memory)) > 0

\* the durable record of the host could not be read
C30_WitnessUnreadable ==
  /\ mem_last.op = "load_memory" /\ ~mem_last.io_ok
  /\ _get_memory_file(current_ip) \in DOMAIN files
  /\ current_memory = <<>>
  /\ Len(get_context_for_ai(current_memory)) > 0

-----------------------------------------------------------------------------
(* The rendered context and the summary                                    *)

\* the places of the rendered text where the heading of an entry starts
EntryMarks(text) ==
  {p \in 1..(Len(text) - 6) :
     /\ text[p] = "-" /\ text[p + 1] = "-" /\ text[p + 2] = "-" /\ text[p + 3] = " "
     /\ text[p + 4] = "u64cd" /\ text[p + 5] = "u4f5c" /\ text[p + 6] = " "}

\* the three lines an entry numbered i must show for the record
EntryHeading(i, record) ==
  <<"-", "-", "-", " ", "u64cd", "u4f5c", " ">> \o Decimal(i) \o <<" ", "[">> \o Decimal(record.time) \o <<"]", " ">>
    \o (IF record.success THEN <<"u2705", " ", "u6210", "u529f">> ELSE <<"u274c", " ", "u5931", "u8d25">>) \o <<" ", "-", "-", "-", "\n">>
    \o <<"u7528", "u6237", "u8bf7", "u6c42", ":", " ">> \o record.input \o <<"\n">>
    \o <<"u6267", "u884c", "u547d", "u4ee4", ":", " ">> \o record.command

\* C31: a non-empty history renders exactly its most recent min(15, count)
\* records, in chronological order and numbered 1..k, each with status marker,
\* time stamp, request and command, and no older record.
C31_ContextSlice ==
  current_memory # <<>> =>
    LET text == get_context_for_ai(current_memory)
        n == Len(current_memory)
        k == IF n < 15 THEN n ELSE 15
        marks == EntryMarks(text)
    IN  /\ Cardinality(marks) = k
        /\ \A j \in 1..k :
             LET p == CHOOSE p \in marks : Cardinality({q \in marks : q <= p}) = j
                 heading == EntryHeading(j, current_memory[n - k + j])
             IN  /\ p + Len(heading) - 1 <= Len(text)
                 /\ SubSeq(text, p, p + Len(heading) - 1) = heading

\* a history of more than 15 records, the newest appended in this session, was
\* rendered without its oldest records
C31_Witness ==
  /\ mem_last.op = "add_operation"
  /\ Len(current_memory) > 15
  /\ Cardinality(EntryMarks(get_context_for_ai(current_memory))) = 15
  /\ current_memory[Len(current_memory)].time = clock - 1

\* the records of the history that are not failures
Successes(memory) ==
  Len(memory) - Cardinality({i \in DOMAIN memory : memory[i].success = FALSE})

\* C32: after any sequence of load, append and clear, the summary reports the
\* number of records in working history, the number of them whose success flag
\* is true and the time stamp of the last one; with an empty history it is the
\* first-connection message.
C32_SummaryRecomputed ==
  LET summary == get_friendly_summary(current_memory)
      n == Len(current_memory)
  IN  /\ n = 0 => summary = <<"u9996", "u6b21", "u8fde", "u63a5", "u6b64", "u670d", "u52a1", "u5668">>
      /\ n > 0 =>
           summary = <<"u5df2", "u6709", " ">> \o Decimal(n) \o <<" ", "u6761", "u8bb0", "u5f55", " ", "(", "u6210", "u529f", " ">>
                       \o Decimal(Successes(current_memory))
                       \o <<" ", "u6b21", ")", "uff0c", "u4e0a", "u6b21", ":", " ">> \o Decimal(current_memory[n].time)

\* a failed operation was appended to a loaded history: the success count stays
\* behind the record count
C32_Witness ==
  /\ mem_last.op = "add_operation"
  /\ Len(current_memory) >= 3
  /\ ~current_memory[Len(current_memory)].success
  /\ current_memory[Len(current_memory)].time = clock - 1
  /\ Successes(current_memory) < Len(current_memory)

\* the history was cleared and the summary is the first-connection message again
C32_WitnessCleared ==
  /\ mem_last.op = "clear_memory"
  /\ mem_last.n >= 3
  /\ current_memory = <<>>

-----------------------------------------------------------------------------
(* SSHManager driven call by call                                          *)

MaxSshCalls == 2

SshConnect ==
  /\ \E host \in {h_A, h_C}, ok \in BOOLEAN, os \in {"Ubuntu", "Linux"} :
       ssh' = ssh_connect(ssh, host, ok, os)
  /\ UNCHANGED <<deepseek, ai_mode_enabled, buttons, threads, after_queue, dialogs,
                 turns, exec_calls, nlp_vars, mem_vars, ai_vars>>

SshDisconnect ==
  /\ ssh' = ssh_disconnect(ssh)
  /\ UNCHANGED <<deepseek, ai_mode_enabled, buttons, threads, after_queue, dialogs,
                 turns, exec_calls, nlp_vars, mem_vars, ai_vars>>

\* execute_command(u_ls); the call is kept with the state it found, what the
\* remote side did and what it returned
SshExecute ==
  /\ Len(exec_calls) < MaxSshCalls
  /\ \E remote \in SessionOutcomes(ssh, RemoteOutcomes) :
       exec_calls' = Append(exec_calls,
                            [turn |-> 0, command |-> u_ls, connected |-> ssh.connected,
                             remote |-> remote, result |-> execute_command(ssh, remote)])
  /\ UNCHANGED <<ssh, deepseek, ai_mode_enabled, buttons, threads, after_queue, dialogs,
                 turns, nlp_vars, mem_vars, ai_vars>>

NextSSH == SshConnect \/ SshDisconnect \/ SshExecute

InitSSH ==
  /\ nlp_input = <<>> /\ nlp_result = NoCall
  /\ MemInit(EmptyDir)
  /\ AiInit
  /\ GuiInit

SpecSSH == InitSSH /\ [][NextSSH]_vars

\* C33: execute_command always returns a (success, text) pair: success = false
\* with a failure text when no session is connected and when the session
\* raises, and otherwise success = false exactly when the command gave error
\* output and no standard output.
C33_ExecuteNeverRaises ==
  \A i \in DOMAIN exec_calls :
    LET c == exec_calls[i]
    IN  /\ c.result.success \in BOOLEAN
        /\ ~c.connected => (~c.result.success /\ c.result.output = msg_not_connected)
        /\ (c.connected /\ c.remote.raised) =>
             (~c.result.success /\ c.result.output # <<>>)
        /\ (c.connected /\ ~c.remote.raised) =>
             (~c.result.success <=> (c.remote.stderr # <<>> /\ c.remote.stdout = <<>>))

\* one call found no session, another gave error output next to standard output
C33_Witness ==
  /\ \E i \in DOMAIN exec_calls : ~exec_calls[i].connected
  /\ \E i \in DOMAIN exec_calls :
       /\ exec_calls[i].connected /\ ~exec_calls[i].remote.raised
       /\ exec_calls[i].remote.stderr # <<>> /\ exec_calls[i].remote.stdout # <<>>
       /\ exec_calls[i].result.success

\* the session raised and the call returned a failure
C33_WitnessRaised ==
  \E i \in DOMAIN exec_calls :
    /\ exec_calls[i].connected /\ exec_calls[i].remote.raised
    /\ ~exec_calls[i].result.success

\* C39: is_connected() is true only with a client whose session is open, that
\* is after a connect that succeeded with neither a failed connect nor a
\* disconnect after it; and without a client the manager is as disconnect
\* leaves it: not connected, no host, no server info, detected OS Linux.
C39_ConnectedReflectsSession ==
  /\ ssh.connected => (ssh.client /\ ssh.client_open)
  /\ ~ssh.client =>
       /\ ~ssh.connected
       /\ ssh.host = <<>>
       /\ ssh.server_info = "empty"
       /\ ssh.detected_os = "Linux"

-----------------------------------------------------------------------------
(* Output analysis and the provider registry                               *)

\* the raw outputs handed to analyze_output: empty, 2000 and 2001 characters
AnalysisOutputs == {<<>>, OutputOfLength(2000), OutputOfLength(2001)}

AnalyzeOutput ==
  /\ AiCall
  /\ \E response \in AnalysisResponses, output \in AnalysisOutputs :
       analyze_output(response, output)
  /\ UNCHANGED <<nlp_vars, mem_vars, gui_vars>>

NextAnalyze == ConfigureProvider \/ SetCurrentProvider \/ AnalyzeOutput

SpecAnalyze == InitProviders /\ [][NextAnalyze]_vars

\* where the output part of the prompt starts and where the rules start
OutputStart(prompt) ==
  CHOOSE p \in 1..Len(prompt) :
    /\ p > Len(prompt_output)
    /\ SubSeq(prompt, p - Len(prompt_output), p - 1) = prompt_output
RulesStart(prompt) == Len(prompt) - Len(prompt_rules) + 1

\* C34: analyze_output returns the empty text when no provider is selected or
\* the selected one is not configured, and when the backend call fails; what
\* it sends is one user message, whose output part is at most the first 2000
\* characters of the raw output.
C34_SummarizeNeverFails ==
  ai_last.op = "analyze_output" =>
    /\ (ai_last.selected_before = NoProvider
        \/ ~is_configured(providers[ai_last.selected_before])) =>
         (ai_last.text = <<>> /\ ~ai_last.returned /\ endpoint_calls = ai_last.calls_before)
    /\ ai_last.response.kind # "text" => ai_last.text = <<>>
    /\ ai_last.returned =>
         /\ Len(ai_last.messages) = 1
         /\ ai_last.messages[1].role = "user"
         /\ LET prompt == ai_last.messages[1].content
                shown == SubSeq(prompt, OutputStart(prompt), RulesStart(prompt) - 1)
                raw == ai_last.output
            IN  /\ Len(shown) <= 2000
                /\ shown = SubSeq(raw, 1, Len(shown))
                /\ Len(raw) <= 2000 => shown = raw

\* the backend failed on an output of more than 2000 characters
C34_Witness ==
  /\ ai_last.op = "analyze_output"
  /\ ai_last.returned
  /\ ai_last.response.kind = "raise"
  /\ Len(ai_last.output) > 2000
  /\ ai_last.text = <<>>

\* nothing was selected and the endpoint was not called
C34_WitnessUnselected ==
  /\ ai_last.op = "analyze_output"
  /\ ai_last.selected_before = NoProvider
  /\ \E name \in ProviderNames : is_configured(providers[name])
  /\ ~ai_last.returned

\* C36: the current provider is unset or names a configured provider, whatever
\* configure and select calls were made, so a call that goes to the current
\* provider finds a client.
C36_SelectedIsConfigured ==
  /\ current_provider # NoProvider =>
       (current_provider \in ProviderNames /\ is_configured(providers[current_provider]))
  /\ (ai_last.op = "parse_command" /\ ai_last.selected_before # NoProvider) =>
       ai_last.returned

\* a configure of the current provider has failed and it is still configured
C36_Witness ==
  /\ ai_last.op = "configure_provider"
  /\ ~ai_last.returned
  /\ ai_last.name = current_provider
  /\ is_configured(providers[current_provider])

\* the analysis text handed to add_ai_response
AnalysisChatter == <<"f", "i", "n", "e">>

RecordHasChatter(record) ==
  \/ Contains(record.input, AnalysisChatter)
  \/ Contains(record.command, AnalysisChatter)
  \/ Contains(record.output, AnalysisChatter)

\* no record of the history and no record of a file holds the analysis text
NoChatterIn(memory, dir) ==
  /\ \A i \in DOMAIN memory : ~RecordHasChatter(memory[i])
  /\ \A f \in DOMAIN dir :
       dir[f].valid =>
         LET history == JsonLoadHistory(dir[f])
         IN  \A i \in DOMAIN history : ~RecordHasChatter(history[i])

\* C35: add_ai_response and clear_session leave the operation history and the
\* files as they were, and the text add_ai_response put into the conversation
\* window is in no operation record, in memory or on file, after any call.
C35_SeparateLifetimes ==
  [][/\ (/\ mem_last'.n = mem_last.n + 1
         /\ mem_last'.op \in {"add_ai_response", "clear_session"})
        => (/\ current_memory' = current_memory
            /\ files' = files
            /\ current_ip' = current_ip)
     /\ NoChatterIn(current_memory', files')]_vars

\* an analysis is in the conversation window, and the operation appended after
\* it was saved without it
C35_Witness ==
  /\ mem_last.op = "add_operation" /\ mem_last.io_ok /\ current_ip # NoIp
  /\ \E i \in DOMAIN session_history :
       Contains(session_history[i].content, AnalysisChatter)
  /\ _get_memory_file(current_ip) \in DOMAIN files
  /\ JsonLoadHistory(files[_get_memory_file(current_ip)]) = current_memory
  /\ NoChatterIn(current_memory, files)

\* C37: the execute button is enabled only while the SSH session is connected,
\* whatever result callback is still pending when the operator disconnects.
C37_ExecuteButtonNeedsSession ==
  buttons.exec_btn = "normal" => ssh.connected

-----------------------------------------------------------------------------
(* The front end under fair scheduling                                     *)

\* worker threads run to their end, the main loop runs the callbacks posted
\* with root.after, and the operator answers an open askyesno dialog
Fairness ==
  /\ WF_vars(ConnectThreadRun)
  /\ WF_vars(AiThreadRun)
  /\ WF_vars(ExecThreadRun)
  /\ WF_vars(RunAfterCallback)
  /\ WF_vars(AnswerDialog)

SpecLive == Init /\ [][Next]_vars /\ Fairness

TurnInFlight(t) ==
  t \in DOMAIN turns /\ turns[t].state \in {"resolving", "confirming", "executing"}

TurnEnded(t) ==
  t \in DOMAIN turns /\ turns[t].state \in {"clarification", "declined", "done"}

\* nothing is running, posted or asked
Quiescent == threads = {} /\ after_queue = <<>> /\ dialogs = <<>>

\* C38: every turn that is resolving, waiting for confirmation or executing
\* ends in a clarification, a declined confirmation or a shown result; and once
\* nothing is pending any more, the execute button of a connected front end is
\* enabled again.
C38_EveryTurnEnds ==
  /\ \A t \in 1..MaxTurns : TurnInFlight(t) ~> TurnEnded(t)
  /\ [](Quiescent /\ ssh.connected => buttons.exec_btn = "normal")

\* a turn whose execution failed on the transport has ended, button enabled
C38_Witness ==
  /\ Quiescent /\ ssh.connected /\ buttons.exec_btn = "normal"
  /\ \E t \in DOMAIN turns : turns[t].state = "done" /\ ~turns[t].success
  /\ \E t \in DOMAIN turns : turns[t].state = "clarification" /\ turns[t].path = "ai"

====
